---- MODULE Spec2Model ----
(***************************************************************************)
(* StreamMind: the content indexing and similarity-retrieval core.         *)
(*   EmbeddingService   (src/app/services/embedding_service.py)            *)
(*   VectorSearchEngine (src/app/services/vector_search.py)                *)
(* over a Redis store holding one hash per content id ("content:<id>")     *)
(* and the set "content_ids".                                              *)
(*                                                                         *)
(* Abstractions, stated once:                                              *)
(*  - strings are sequences of one-character strings;                      *)
(*  - vectors are sequences of integers; a cosine similarity is the IEEE   *)
(*    double the source computes from them (or NaN);                       *)
(*  - the embedding dimension (384 in the source) is scaled down;          *)
(*  - the hash seed of the process is known by what it has decided: the    *)
(*    draw behind the mock embedding of a text and the hash of an id are   *)
(*    chosen when the program first computes them, and kept;               *)
(*  - every coroutine is cut at its awaits: a call is one step up to its   *)
(*    first await, one step for each awaited command or executor job, and  *)
(*    one step to resume and return after a Redis reply; `call`,           *)
(*    `returned` and `results` describe the call that returned last.       *)
(***************************************************************************)
EXTENDS Integers, Sequences, FiniteSets, TLC

(***************************************************************************)
(* Bounds of the model.                                                    *)
(***************************************************************************)
\* largest result limit k a query carries (the smallest is -1)
MaxK == 2
\* the default embedding dimension, 384 in the source, scaled down
DefaultDimension == 3
MaxBatch == 2
MaxTasks == 2
\* content[:200] + "..." and tags[:5] in the search endpoint: the number of
\* characters of a content it shows and the number of tags it shows
ContentLimit == 200
TagLimit == 5
\* timedelta(hours=abs(hash(id)) % 24): the hours the endpoint spreads over
HoursOfDay == 24

\* the content identifiers the callers use
Ids == {"c1", "c2"}

(***************************************************************************)
(* Strings.                                                                *)
(***************************************************************************)
Chars == {"a", "b", "t", "d", " ", ","}

CharCode(c) ==
    CASE c = "a" -> 1
      [] c = "b" -> 2
      [] c = " " -> 3
      [] c = "," -> 4
      [] c = "t" -> 5
      [] c = "d" -> 6

Space == <<" ">>
Comma == <<",">>
EmptyStr == <<>>

\* a bytes value: its characters behind the marker "bytes"
Bytes(s) == <<"bytes">> \o s

\* the characters of a str or of a bytes value
Characters(text) ==
    IF text # <<>> /\ Head(text) = "bytes" THEN Tail(text) ELSE text

\* a hash is a machine word: the sums below wrap
Wrapped(n) == n % 17489

RECURSIVE PowerOfSeven(_)
\* 7^n, wrapped
PowerOfSeven(n) ==
    IF n = 0 THEN 1
    ELSE LET half == PowerOfSeven(n \div 2)
         IN Wrapped(half * half * (IF n % 2 = 1 THEN 7 ELSE 1))

RECURSIVE SumCodes(_)
\* the character codes as the digits of a number in base 7 (the first
\* character is the lowest digit), wrapped; computed half by half
SumCodes(s) ==
    IF s = <<>> THEN 0
    ELSE IF Len(s) = 1 THEN CharCode(s[1])
    ELSE LET n == Len(s) \div 2
         IN Wrapped(SumCodes(SubSeq(s, 1, n))
                    + PowerOfSeven(n) * SumCodes(SubSeq(s, n + 1, Len(s))))

\* hash(text). Only the equalities of hashes are modelled, not their values
\* (which change with the hash seed of the process): different strings of up
\* to five of these characters have different hashes, hash("") is 0, and a
\* str and the bytes of the same ASCII characters have the same hash.
PyHash(text) == SumCodes(Characters(text))

\* f"{title} {content}"
text_to_embed(title, content) == title \o Space \o content

RECURSIVE Join(_)
\* ",".join(tags)
Join(tags) ==
    IF tags = <<>> THEN EmptyStr
    ELSE IF Len(tags) = 1 THEN tags[1]
    ELSE tags[1] \o Comma \o Join(Tail(tags))

RECURSIVE SplitFrom(_, _)
\* s.split(",") continued with the piece collected so far
SplitFrom(s, piece) ==
    IF s = <<>> THEN <<piece>>
    ELSE IF Head(s) = "," THEN <<piece>> \o SplitFrom(Tail(s), EmptyStr)
    ELSE SplitFrom(Tail(s), Append(piece, Head(s)))

\* content_info.get("tags", "").split(",") if content_info.get("tags") else []
SplitTags(s) == IF s = EmptyStr THEN <<>> ELSE SplitFrom(s, EmptyStr)

(***************************************************************************)
(* Natural numbers of any size: the sequence of their digits in base 2^15, *)
(* the lowest first, the highest not 0 (0 is the empty sequence).          *)
(***************************************************************************)
Base == 2^15

RECURSIVE Trim(_)
Trim(a) == IF a # <<>> /\ a[Len(a)] = 0 THEN Trim(SubSeq(a, 1, Len(a) - 1)) ELSE a

RECURSIVE Digits(_)
Digits(n) == IF n = 0 THEN <<>> ELSE <<n % Base>> \o Digits(n \div Base)

RECURSIVE AddDigits(_, _, _)
AddDigits(a, b, carry) ==
    IF a = <<>> /\ b = <<>> THEN (IF carry = 0 THEN <<>> ELSE <<carry>>)
    ELSE LET x == IF a = <<>> THEN 0 ELSE a[1]
             y == IF b = <<>> THEN 0 ELSE b[1]
             s == x + y + carry
         IN <<s % Base>> \o AddDigits(IF a = <<>> THEN a ELSE Tail(a),
                                      IF b = <<>> THEN b ELSE Tail(b),
                                      s \div Base)
Plus(a, b) == AddDigits(a, b, 0)

RECURSIVE SubDigits(_, _, _)
SubDigits(a, b, borrow) ==
    IF a = <<>> THEN <<>>
    ELSE LET y == IF b = <<>> THEN 0 ELSE b[1]
             d == a[1] - y - borrow
         IN <<d % Base>> \o SubDigits(Tail(a), IF b = <<>> THEN b ELSE Tail(b),
                                      IF d < 0 THEN 1 ELSE 0)
\* a - b for a >= b
Minus(a, b) == Trim(SubDigits(a, b, 0))

RECURSIVE CompareFrom(_, _, _)
CompareFrom(a, b, i) ==
    IF i = 0 THEN 0
    ELSE IF a[i] # b[i] THEN (IF a[i] < b[i] THEN 0 - 1 ELSE 1)
    ELSE CompareFrom(a, b, i - 1)
\* -1, 0 or 1 as a < b, a = b or a > b
Compare(a, b) ==
    IF Len(a) # Len(b) THEN (IF Len(a) < Len(b) THEN 0 - 1 ELSE 1)
    ELSE CompareFrom(a, b, Len(a))

RECURSIVE TimesDigit(_, _, _)
TimesDigit(a, m, carry) ==
    IF a = <<>> THEN (IF carry = 0 THEN <<>> ELSE <<carry>>)
    ELSE LET p == a[1] * m + carry
         IN <<p % Base>> \o TimesDigit(Tail(a), m, p \div Base)

RECURSIVE Times(_, _)
Times(a, b) ==
    IF a = <<>> \/ b = <<>> THEN <<>>
    ELSE Trim(Plus(TimesDigit(a, b[1], 0), <<0>> \o Times(a, Tail(b))))

\* a * 2^n
ShiftLeft(a, n) ==
    IF a = <<>> THEN a
    ELSE [i \in 1..(n \div 15) |-> 0] \o TimesDigit(a, 2^(n % 15), 0)

RECURSIVE HalveFrom(_, _, _, _)
\* the digits of a \div m from the highest, for a digit m
HalveFrom(a, m, i, rest) ==
    IF i = 0 THEN <<>>
    ELSE LET x == rest * Base + a[i]
         IN HalveFrom(a, m, i - 1, x % m) \o <<x \div m>>
\* a \div 2^n
ShiftRight(a, n) ==
    LET dropped == IF n \div 15 >= Len(a) THEN <<>>
                   ELSE SubSeq(a, (n \div 15) + 1, Len(a))
    IN Trim(HalveFrom(dropped, 2^(n % 15), Len(dropped), 0))

RECURSIVE BitsOf(_)
BitsOf(n) == IF n = 0 THEN 0 ELSE 1 + BitsOf(n \div 2)
\* the number of binary digits of a
BitLength(a) == IF a = <<>> THEN 0 ELSE 15 * (Len(a) - 1) + BitsOf(a[Len(a)])

IsOdd(a) == a # <<>> /\ a[1] % 2 = 1

(***************************************************************************)
(* IEEE 754 doubles: NaN, or (-1)^neg * mant * 2^exp with mant = 0 or      *)
(* 2^52 <= mant < 2^53; every operation rounds to nearest, ties to even.   *)
(***************************************************************************)
NanDouble == [nan |-> TRUE, neg |-> FALSE, exp |-> 0, mant |-> <<>>]
Double(neg, mant, exp) == [nan |-> FALSE, neg |-> neg, exp |-> exp, mant |-> mant]
DoubleZero == Double(FALSE, <<>>, 0)

\* mant * 2^exp for a mant of 53 binary digits, or of 54 (the rounding
\* carried into a new digit)
Carried(neg, mant, exp) ==
    IF BitLength(mant) > 53 THEN Double(neg, ShiftRight(mant, 1), exp + 1)
    ELSE Double(neg, mant, exp)

\* kept or the integer after it, to nearest, ties to even. rest: the digits
\* dropped compared with one half (-1, 0, 1); above: the real exceeds them
Nearest(kept, rest, above) ==
    IF rest > 0 \/ (rest = 0 /\ (above \/ IsOdd(kept))) THEN Plus(kept, <<1>>)
    ELSE kept

\* n * 2^exp rounded to kept, which is n without its lowest `cut` digits
CutOff(neg, n, exp, inexact, cut, kept) ==
    Carried(neg,
            Nearest(kept,
                    Compare(Minus(n, ShiftLeft(kept, cut)), ShiftLeft(<<1>>, cut - 1)),
                    inexact),
            exp + cut)

\* the same for an n of len binary digits
RoundedTo(neg, n, exp, inexact, len) ==
    IF len = 0 THEN DoubleZero
    ELSE IF len <= 53 THEN Double(neg, ShiftLeft(n, 53 - len), exp - (53 - len))
    ELSE CutOff(neg, n, exp, inexact, len - 53, ShiftRight(n, len - 53))

\* the double nearest to n * 2^exp, or to a real just above it (inexact: the
\* digits of n are its first 55 or more)
Rounded(neg, n, exp, inexact) == RoundedTo(neg, n, exp, inexact, BitLength(n))

\* float(n) for an integer n
FromInt(n) == Rounded(n < 0, Digits(IF n < 0 THEN 0 - n ELSE n), 0, FALSE)

RECURSIVE RootBits(_, _, _)
\* the largest r with r * r <= n that has the binary digits of r above i
RootBits(n, r, i) ==
    IF i < 0 THEN r
    ELSE LET more == Plus(r, ShiftLeft(<<1>>, i))
         IN IF Compare(Times(more, more), n) <= 0 THEN RootBits(n, more, i - 1)
            ELSE RootBits(n, r, i - 1)

\* the root of scaled = n * 4^scale, rounded
SqrtRounded(scaled, scale, root) ==
    Rounded(FALSE, root, 0 - scale, Times(root, root) # scaled)
SqrtScaled(scaled, scale) == SqrtRounded(scaled, scale, RootBits(scaled, <<>>, 54))
SqrtDigits(n, scale) == SqrtScaled(ShiftLeft(n, 2 * scale), scale)

\* np.sqrt of the double of an integer n >= 0
Sqrt(n) ==
    IF n = 0 THEN DoubleZero
    ELSE SqrtDigits(Digits(n), (110 - BitLength(Digits(n))) \div 2)

\* a * b
Multiply(a, b) ==
    IF a.nan \/ b.nan THEN NanDouble
    ELSE Rounded(a.neg # b.neg, Times(a.mant, b.mant), a.exp + b.exp, FALSE)

RECURSIVE QuotientBits(_, _, _, _)
\* the largest q with q * d <= n that has the binary digits of q above i
QuotientBits(n, d, q, i) ==
    IF i < 0 THEN q
    ELSE LET more == Plus(q, ShiftLeft(<<1>>, i))
         IN IF Compare(Times(more, d), n) <= 0 THEN QuotientBits(n, d, more, i - 1)
            ELSE QuotientBits(n, d, q, i - 1)

\* n / d * 2^exp rounded, q being the integer part of n / d
QuotientRounded(neg, n, d, exp, q) == Rounded(neg, q, exp, Times(q, d) # n)
DivideDigits(neg, n, d, exp) ==
    QuotientRounded(neg, n, d, exp, QuotientBits(n, d, <<>>, 57))

\* a / b; numpy gives nan for 0.0 / 0.0 (with a warning, not an error)
Divide(a, b) ==
    IF a.nan \/ b.nan \/ b.mant = <<>> THEN NanDouble
    ELSE DivideDigits(a.neg # b.neg, ShiftLeft(a.mant, 56), b.mant,
                      a.exp - b.exp - 56)

\* (one - other) * 2^low, or (one + other) * 2^low when adds
Difference(adds, one, other, low) ==
    Rounded(~adds /\ Compare(one, other) < 0,
            IF adds THEN Plus(one, other)
            ELSE IF Compare(one, other) >= 0 THEN Minus(one, other)
            ELSE Minus(other, one),
            low, FALSE)
\* 1 - a with both written in units of 2^low
OneMinusIn(a, low) ==
    Difference(a.neg, ShiftLeft(<<1>>, 0 - low), ShiftLeft(a.mant, a.exp - low), low)

\* 1 - a
OneMinusDouble(a) ==
    IF a.nan THEN NanDouble
    ELSE OneMinusIn(a, IF a.mant # <<>> /\ a.exp < 0 - 52 THEN a.exp ELSE 0 - 52)

\* a < b for doubles that are not NaN
MagnitudeLess(a, b) ==
    IF a.mant = <<>> THEN b.mant # <<>>
    ELSE IF b.mant = <<>> THEN FALSE
    ELSE a.exp < b.exp \/ (a.exp = b.exp /\ Compare(a.mant, b.mant) < 0)
DoubleLess(a, b) ==
    IF a.neg /\ a.mant # <<>>
    THEN IF b.neg /\ b.mant # <<>> THEN MagnitudeLess(b, a) ELSE TRUE
    ELSE IF b.neg /\ b.mant # <<>> THEN FALSE ELSE MagnitudeLess(a, b)
\* -1, 0 or 1 as a < b, a == b or a > b
DoubleOrder(a, b) ==
    IF DoubleLess(a, b) THEN 0 - 1 ELSE IF DoubleLess(b, a) THEN 1 ELSE 0

(***************************************************************************)
(* Floating-point values of the program: NaN, or a double kept by the      *)
(* operation that gave it, dot / (sqrt(sq1) * sqrt(sq2)) over integers, or *)
(* 1 minus that. Its bits are `double`.                                    *)
(***************************************************************************)
NaN == [nan |-> TRUE, minus |-> FALSE, dot |-> 0, sq1 |-> 0, sq2 |-> 0]
Real(dot, sq1, sq2) ==
    [nan |-> FALSE, minus |-> FALSE, dot |-> dot, sq1 |-> sq1, sq2 |-> sq2]
Zero == Real(0, 1, 1)

\* np.dot(v1, v2) / (np.linalg.norm(v1) * np.linalg.norm(v2)) in doubles:
\* the products and sums of small integers are exact, norm is sqrt(dot)
quotient(dot, sq1, sq2) ==
    Divide(FromInt(dot), Multiply(Sqrt(sq1), Sqrt(sq2)))

\* similarity, or distance = 1 - similarity
minus_or_not(minus, similarity) ==
    IF minus THEN OneMinusDouble(similarity) ELSE similarity

\* the double of a float of the program
double(x) ==
    IF x.nan THEN NanDouble
    ELSE minus_or_not(x.minus, quotient(x.dot, x.sq1, x.sq2))

\* the real dot / sqrt(sq1 * sq2) by sign(dot) * dot^2 over sq1 * sq2:
\* x < y on the reals, and x = y
SqKey(x) == IF x.dot < 0 THEN 0 - (x.dot * x.dot) ELSE x.dot * x.dot
RealLess(x, y) == SqKey(x) * (y.sq1 * y.sq2) < SqKey(y) * (x.sq1 * x.sq2)
RealEq(x, y) == SqKey(x) * (y.sq1 * y.sq2) = SqKey(y) * (x.sq1 * x.sq2)

\* a quotient of integers so small that it differs from every other such
\* real by more than 2^-29 and is at most 1
Small(x) ==
    /\ ~x.minus
    /\ x.sq1 > 0 /\ x.sq1 < 2^7
    /\ x.sq2 > 0 /\ x.sq2 < 2^7
    /\ x.dot * x.dot <= x.sq1 * x.sq2

\* the reals of two small quotients differ: the four roundings of a quotient
\* (each at most 2^-53 of it) leave their doubles in the order of the reals
Apart(x, y) == Small(x) /\ Small(y) /\ ~RealEq(x, y)

\* -1, 0 or 1 as a < b, a == b or a > b, for floats that are not NaN
Order(a, b) ==
    IF a = b THEN 0
    ELSE IF Apart(a, b) THEN (IF RealLess(a, b) THEN 0 - 1 ELSE 1)
    ELSE DoubleOrder(double(a), double(b))

\* a < b on floats: false when either is NaN
FLess(a, b) == ~a.nan /\ ~b.nan /\ Order(a, b) < 0

\* a == b on floats: false when either is NaN
FEq(a, b) == ~a.nan /\ ~b.nan /\ Order(a, b) = 0

\* a >= b on floats: false when either is NaN
FGeq(a, b) == ~a.nan /\ ~b.nan /\ Order(a, b) >= 0

\* 1 - x
OneMinus(x) == IF x.nan THEN NaN ELSE [x EXCEPT !.minus = TRUE]

\* the float is 1.0 up to the rounding of the quotient: the real is 1
AboutOne(x) == ~x.nan /\ ~x.minus /\ x.dot > 0 /\ x.dot * x.dot = x.sq1 * x.sq2

(***************************************************************************)
(* Vectors.                                                                *)
(***************************************************************************)
RECURSIVE Dot(_, _)
Dot(v1, v2) == IF v1 = <<>> THEN 0 ELSE v1[1] * v2[1] + Dot(Tail(v1), Tail(v2))

\* EmbeddingService.cosine_similarity: np.dot raises on a shape mismatch and
\* the except clause returns 0.0; a zero norm gives 0/0 = nan, not an error.
\* The value is the double of the division (see `double`), which for a
\* vector and itself is 1.0 or one of its two neighbours.
cosine_similarity(vec1, vec2) ==
    IF Len(vec1) # Len(vec2) THEN Zero
    ELSE IF Dot(vec1, vec1) * Dot(vec2, vec2) = 0 THEN NaN
    ELSE Real(Dot(vec1, vec2), Dot(vec1, vec1), Dot(vec2, vec2))

\* np.random.seed(0); np.random.normal(0, 1, dim): the draw of the seed 0,
\* which is the hash of "" in every process, by the direction of its first
\* three components
ZeroSeedDraw == <<3, 2, 4>>

\* the directions np.random.normal(0, 1, dim) can give for another seed (the
\* vector is normalised, so only its direction counts), by their first three
\* components. No component is 0; the cosines between the first axis, the
\* draw of the seed 0 and one direction, between the first axis and two
\* directions, and between the draw of the seed 0 and two directions have
\* every combination of signs and every order that three vectors allow.
Directions ==
    {<< -5, 4, -4>>, << -4, 3, -5>>, << -1, -4, 5>>, << -1, 3, 4>>,
     <<1, -5, 2>>, <<1, 5, 3>>, <<3, -5, -2>>, <<3, -4, 5>>,
     <<4, -3, 3>>, <<4, 1, 4>>, <<5, -2, -5>>, <<5, -1, -1>>}

\* the first component of v / |v| is smaller than that of w / |w|
LeansLess(v, w) ==
    LET sq(x) == (IF x[1] < 0 THEN 0 - 1 ELSE 1) * x[1] * x[1]
    IN sq(v) * Dot(w, w) < sq(w) * Dot(v, v)

\* what the draws of two different seeds are to each other (the cases of
\* probability one): not parallel, not orthogonal, not at the same angle to
\* the first axis. Every direction is so to the draw of the seed 0.
independent(v, w) ==
    /\ \E i, j \in 1..Len(v) : v[i] * w[j] # v[j] * w[i]
    /\ Dot(v, w) # 0
    /\ LeansLess(v, w) \/ LeansLess(w, v)

\* embedding = np.random.normal(0, 1, dim); embedding / np.linalg.norm(
\* embedding): the vector of dimension dim of a draw, not normalised (a
\* cosine does not change with the length). The generator gives its numbers
\* one after the other, so the vector of a smaller dimension is a prefix of
\* that of a larger one; the components after the third repeat the second
\* and the third, then the first, in turn, and are not 0.
normal_vector(draw, dim) ==
    [i \in 1..dim |->
        IF i <= Len(draw) THEN draw[i] ELSE draw[(i % Len(draw)) + 1]]

\* self.model.encode([text])[0].tolist(): the loaded model's vector for a
\* text, a function of the text itself, of the model's dimension. What a
\* real model gives is not modelled: the first component is -(7 + the
\* length), the others are 1 + the code of a character (1 past the end), so
\* that no component is 0 and texts that differ in their length or in one of
\* their first dim - 1 characters have different vectors.
model_encode(text, dim) ==
    LET chars == Characters(text)
    IN [i \in 1..dim |->
           IF i = 1 THEN 0 - (7 + Len(chars))
           ELSE IF i - 1 <= Len(chars) THEN 1 + CharCode(chars[i - 1]) ELSE 1]

(***************************************************************************)
(* Optional values and JSON documents.                                     *)
(***************************************************************************)
None == [kind |-> "none"]
Absent == [kind |-> "absent"]
List(v) == [kind |-> "list", v |-> v]
Str(s) == [kind |-> "str", s |-> s]

\* json.dumps of None or of a list of numbers
JsonDumps(x) ==
    IF x.kind = "list" THEN [json |-> "array", items |-> x.v]
    ELSE [json |-> "null", items |-> <<>>]

\* json.loads
JsonLoads(doc) == IF doc.json = "array" THEN List(doc.items) ELSE None

\* Python truthiness of a parsed embedding: None and [] are falsy
Truthy(x) == x.kind = "list" /\ x.v # <<>>

(***************************************************************************)
(* Python list operations.                                                 *)
(***************************************************************************)
Reverse(s) == [i \in 1..Len(s) |-> s[Len(s) + 1 - i]]

\* the comparison list.sort makes on the keys x.score
KeyLess(x, y) == FLess(x.score, y.score)

\* the comparisons list.sort can make on a list: for each two of its items,
\* whether the key of the one is less than the key of the other
Comparisons(s) ==
    [x \in {s[i] : i \in 1..Len(s)}, y \in {s[i] : i \in 1..Len(s)} |->
        KeyLess(x, y)]

\* the interpreters that may run the process: list.sort finds the run that
\* starts the list in one way up to CPython 3.12 and in another from 3.13
\* on; the two give different orders only for three or more keys with a NaN
Pythons == {"3.12", "3.13"}

RECURSIVE RunEnd(_, _, _, _)
\* listobject.c count_run up to CPython 3.12: the length of the run that
\* starts the list, strictly descending (desc) or non-descending
RunEnd(s, n, desc, less) ==
    IF n < Len(s) /\ (less[s[n + 1], s[n]] <=> desc)
    THEN RunEnd(s, n + 1, desc, less)
    ELSE n

RECURSIVE BinPos(_, _, _, _, _)
\* listobject.c binarysort: the 0-based slot of pivot in the sorted prefix
BinPos(s, pivot, l, r, less) ==
    IF l >= r THEN l
    ELSE LET p == l + ((r - l) \div 2)
         IN IF less[pivot, s[p + 1]] THEN BinPos(s, pivot, l, p, less)
            ELSE BinPos(s, pivot, p + 1, r, less)

InsertAt(s, pos, x) == SubSeq(s, 1, pos) \o <<x>> \o SubSeq(s, pos + 1, Len(s))

RECURSIVE BinarySort(_, _, _)
BinarySort(sorted, rest, less) ==
    IF rest = <<>> THEN sorted
    ELSE BinarySort(InsertAt(sorted,
                             BinPos(sorted, Head(rest), 0, Len(sorted), less),
                             Head(rest)),
                    Tail(rest), less)

\* reverse_sortslice: the items lo..hi of s reversed in place
ReverseSlice(s, lo, hi) ==
    [i \in 1..Len(s) |-> IF lo <= i /\ i <= hi THEN s[lo + hi - i] ELSE s[i]]

RECURSIVE AscendingEnd(_, _, _)
\* for (; n < nremaining; ++n) IF_NEXT_SMALLER break;
AscendingEnd(s, n, less) ==
    IF n < Len(s) /\ ~less[s[n + 1], s[n]] THEN AscendingEnd(s, n + 1, less)
    ELSE n

\* REVERSE_LAST_NEQ: the latest neq + 1 items of the first n, all equal, are
\* reversed
ReverseLastNeq(s, n, neq) == IF neq > 0 THEN ReverseSlice(s, n - neq, n) ELSE s

RECURSIVE DescendingRun(_, _, _, _)
\* the loop that finishes a descending run: the list and the length reached
DescendingRun(s, n, neq, less) ==
    IF n >= Len(s) THEN [s |-> ReverseLastNeq(s, n, neq), n |-> n]
    ELSE IF less[s[n + 1], s[n]]
    THEN DescendingRun(ReverseLastNeq(s, n, neq), n + 1, 0, less)
    ELSE IF less[s[n], s[n + 1]]
    THEN [s |-> ReverseLastNeq(s, n, neq), n |-> n]
    ELSE DescendingRun(s, n + 1, neq + 1, less)

\* listobject.c count_run from CPython 3.13 on, for a list of two or more
\* items: the list with its leading run made ascending, and the run's length
count_run(s, less) ==
    LET n == AscendingEnd(s, 1, less)
    IN IF n = Len(s) \/ (n > 1 /\ less[s[1], s[n]]) THEN [s |-> s, n |-> n]
       ELSE LET d == DescendingRun(IF n > 1 THEN ReverseSlice(s, 1, n) ELSE s,
                                   n + 1, 0, less)
                r == ReverseSlice(d.s, 1, d.n)
            IN [s |-> r, n |-> AscendingEnd(r, d.n, less)]

\* list.sort on fewer than 64 items: the leading run, then binary insertion
PySortAscending(s, python, less) ==
    IF Len(s) < 2 THEN s
    ELSE IF python = "3.13"
    THEN LET c == count_run(s, less)
         IN BinarySort(SubSeq(c.s, 1, c.n), SubSeq(c.s, c.n + 1, Len(s)), less)
    ELSE LET desc == less[s[2], s[1]]
             n == RunEnd(s, 2, desc, less)
             run == SubSeq(s, 1, n)
         IN BinarySort(IF desc THEN Reverse(run) ELSE run,
                       SubSeq(s, n + 1, Len(s)), less)

\* results.sort(key=lambda x: x.score, reverse=True): reverse, sort, reverse
sort_by_score(results, python) ==
    Reverse(PySortAscending(Reverse(results), python, Comparisons(results)))

\* the orders the sort can leave the results in
sorted_by_score(results) == {sort_by_score(results, python) : python \in Pythons}

\* results[:k + 1]
PySliceOneMore(s, k) == SubSeq(s, 1, IF k + 1 < Len(s) THEN k + 1 ELSE Len(s))

\* results[:k]
PySlice(s, k) ==
    IF k >= 0 THEN SubSeq(s, 1, IF k < Len(s) THEN k ELSE Len(s))
    ELSE SubSeq(s, 1, IF Len(s) + k > 0 THEN Len(s) + k ELSE 0)

RECURSIVE Orders(_)
\* the orders in which a set can be enumerated
Orders(S) ==
    IF S = {} THEN {<<>>}
    ELSE UNION {{<<x>> \o o : o \in Orders(S \ {x})} : x \in S}

(***************************************************************************)
(* Inputs of the callers.                                                  *)
(***************************************************************************)
Titles == {<<"a">>, <<"b">>}
Tech == <<"t">>
Design == <<"d">>

ZeroVector == [i \in 1..DefaultDimension |-> 0]
UnitVector == [i \in 1..DefaultDimension |-> IF i = 1 THEN 1 ELSE 0]
ShortVector == [i \in 1..(DefaultDimension - 1) |-> 1]

\* content_data["embedding"]: None, [], or a list the caller computed
EmbeddingInputs == {None, List(<<>>), List(ZeroVector), List(UnitVector), List(ShortVector)}

BaseFields ==
    [title |-> <<"a">>, content |-> <<"a">>, category |-> Tech,
     tags |-> << <<"a">> >>, author |-> <<"a">>,
     created_at |-> [sec |-> 1, usec |-> 0],
     embedding |-> Absent, metadata |-> <<>>]

OtherFields ==
    [title |-> <<"b">>, content |-> EmptyStr, category |-> Design,
     tags |-> << <<"b">>, <<"t">> >>, author |-> <<"b">>,
     created_at |-> [sec |-> 2, usec |-> 5],
     embedding |-> List(UnitVector), metadata |-> << <<"a", "b">> >>]

\* mappings that differ in what ranking reads: the embedding (generated for
\* the text, supplied, supplied with norm zero) and the category
RankingFields ==
    {BaseFields,
     [BaseFields EXCEPT !.category = Design, !.embedding = List(UnitVector)],
     [BaseFields EXCEPT !.embedding = List(ZeroVector)]}

\* mappings that differ in what the store keeps: every field, the embedding
StoreFields ==
    {BaseFields, OtherFields}
    \cup {[BaseFields EXCEPT !.embedding = e] : e \in EmbeddingInputs}

\* a mapping without an embedding, and one that differs from it in every
\* field and carries an embedding
TextFields == {BaseFields, OtherFields}

\* tag lists: none, one tag, two tags, a tag containing a comma, the empty
\* tag alone and after another tag
TagLists ==
    {<<>>, << <<"a">> >>, << <<"a">>, <<"b">> >>, << <<"a", ",", "b">> >>,
     << EmptyStr >>, << <<"a">>, EmptyStr >>}

\* mappings that differ in their tags
TagFields == {[BaseFields EXCEPT !.tags = tags] : tags \in TagLists}

BaseText == <<"a", " ", "a">>

\* mappings that make a step of index_content or of a later search fail: no
\* usable embedding, an embedding of another length, a created_at that is
\* not a datetime; and two well-formed ones of different categories
FaultFields ==
    {BaseFields,
     [BaseFields EXCEPT !.category = Design],
     [BaseFields EXCEPT !.embedding = None],
     [BaseFields EXCEPT !.embedding = List(ShortVector)],
     [BaseFields EXCEPT !.created_at = None]}

\* mappings of concurrent callers: two that differ in every field, and one
\* whose embedding is None
ConcurrentFields ==
    {BaseFields, OtherFields, [BaseFields EXCEPT !.embedding = None]}

\* the query of a concurrent search: by a vector, every result
ConcurrentQueries ==
    {[text |-> EmptyStr, vector |-> List(UnitVector), k |-> MaxK,
      category_filter |-> None]}

\* mappings for writes: well-formed without an embedding, and malformed
WriteFields ==
    {BaseFields, [BaseFields EXCEPT !.created_at = None]}

\* queries by text and by vector (of the dimension, and shorter), all results
FaultQueries ==
    {[text |-> BaseText, vector |-> v, k |-> k, category_filter |-> None] :
        v \in {None, List(UnitVector), List(ShortVector)},
        k \in {0 - 1, MaxK}}

\* the texts given to generate_embedding: a str and the bytes of the same
\* characters (they have the same hash), and the empty str
Texts == {<<"a", " ", "a">>, Bytes(<<"a", " ", "a">>), EmptyStr}

\* the lists of texts a caller embeds in one batch
BatchTexts == {<<"a", " ", "a">>, EmptyStr}
TextLists == UNION {[1..n -> BatchTexts] : n \in 0..MaxBatch}
QueryVectors == {List(UnitVector), List(ZeroVector)}
Ks == (0 - 1)..MaxK
CategoryFilters == {None, Str(EmptyStr), Str(Tech)}

\* SearchQuery(text, vector, k, category_filter): by text with every k and,
\* for the largest k, every filter; by vector with every k and, for the
\* largest k, the vector of norm zero
SearchQueries ==
    {[text |-> BaseText, vector |-> None, k |-> k, category_filter |-> None] :
        k \in Ks}
    \cup {[text |-> BaseText, vector |-> None, k |-> MaxK, category_filter |-> f] :
        f \in CategoryFilters}
    \cup {[text |-> EmptyStr, vector |-> List(UnitVector), k |-> k,
           category_filter |-> None] : k \in Ks}
    \cup {[text |-> EmptyStr, vector |-> v, k |-> MaxK, category_filter |-> None] :
        v \in QueryVectors}

\* queries that read the store back: everything, by a text
ProbeQueries ==
    {[text |-> BaseText, vector |-> None, k |-> MaxK, category_filter |-> None]}

\* queries by the text of the indexed mapping that carries no embedding,
\* unfiltered
TextQueries ==
    {[text |-> BaseText, vector |-> None, k |-> k, category_filter |-> None] :
        k \in 1..MaxK}


(***************************************************************************)
(* State.                                                                  *)
(***************************************************************************)
VARIABLES
    model,            \* EmbeddingService.model: "None" or "Loaded"
    dimension,        \* EmbeddingService.dimension
    embedding_cache,  \* EmbeddingService._embedding_cache: hash(text) -> vector
    content,          \* Redis hashes "content:<id>": id -> mapping (or no key)
    content_ids,      \* Redis set "content_ids"
    call,             \* the call that returned in the latest step, with its arguments
    returned,         \* the boolean that call returned
    results,          \* the list that call returned
    pending,          \* the coroutines: where each is suspended, and its locals
    acknowledged,     \* history: the ids for which index_content returned True
    hash_seed,        \* what the hash seed of the process (PYTHONHASHSEED)
                      \* has decided so far: the draws seeded by the hashes
                      \* of texts, and hash(id) % 24 for content ids
    model_name        \* EmbeddingService.model_name (EMBEDDING_MODEL)

vars == <<model, dimension, embedding_cache, content, content_ids, call,
          returned, results, pending, acknowledged, hash_seed, model_name>>

\* the process: its hash seed and the model it is configured with
process == <<hash_seed, model_name>>

\* the coroutines that run concurrently
Tasks == 1..MaxTasks

\* the one coroutine of a caller that awaits each call before it makes the next
Callers == {0}

\* a coroutine that has not been started
Idle == [state |-> "idle"]

\* no call returned in the latest step: a coroutine was suspended in it
Running == [op |-> "coroutine"]

NoRecord == [exists |-> FALSE]

\* the default of EMBEDDING_MODEL, and another model
DefaultModel == "sentence-transformers/all-MiniLM-L6-v2"
ModelNames == {DefaultModel, "other"}

\* get_sentence_embedding_dimension(): the default model has the default
\* dimension (384), another model may have another
ModelDimension(name) ==
    IF name = DefaultModel THEN DefaultDimension ELSE DefaultDimension + 1

\* a process in which no text and no id has been hashed yet: its hash seed
\* can be any
AnySeed == [draws |-> <<>>, hours |-> <<>>]

\* a process whose hash seed is known by the draw of the base text and the
\* hours of the ids
OneSeed ==
    [draws |-> (0 :> ZeroSeedDraw) @@ (PyHash(BaseText) :> <<4, 1, 4>>),
     hours |-> ("c1" :> 21) @@ ("c2" :> 5)]

\* the directions the draw of one more seed can have, given those of the
\* seeds drawn from so far
fresh(seed) ==
    LET free_of_all ==
            {d \in Directions :
                \A k \in DOMAIN seed.draws : independent(d, seed.draws[k])}
    IN IF free_of_all = {} THEN Directions ELSE free_of_all

RECURSIVE seeded(_, _)
\* np.random.seed(abs(hash(text)) % (2**32)) for each of the texts: what the
\* hash seed can turn out to be when these texts are hashed and drawn for,
\* given what it has decided so far. hash("") is 0 whatever the hash seed.
seeded(seed, texts) ==
    LET unseen == {PyHash(text) : text \in texts} \ DOMAIN seed.draws
    IN IF unseen = {} THEN {seed}
       ELSE LET k == CHOOSE k \in unseen : TRUE
            IN UNION {seeded([seed EXCEPT !.draws = (k :> d) @@ @], texts) :
                         d \in IF k = 0 THEN {ZeroSeedDraw} ELSE fresh(seed)}

RECURSIVE hashed(_, _)
\* hash(id) for each of the ids: what the hash seed can turn out to be
hashed(seed, ids) ==
    LET unseen == ids \ DOMAIN seed.hours
    IN IF unseen = {} THEN {seed}
       ELSE LET id == CHOOSE id \in unseen : TRUE
            IN UNION {hashed([seed EXCEPT !.hours = (id :> h) @@ @], ids) :
                         h \in 0..(HoursOfDay - 1)}

\* EmbeddingService._generate_mock_embedding in a process of this hash seed
generate_mock_embedding(seed, text, dim) ==
    normal_vector(seed.draws[PyHash(text)], dim)

\* EmbeddingService.__init__ and VectorSearchEngine.__init__ over an empty
\* store
Constructed ==
    /\ model = "None"
    /\ dimension = DefaultDimension
    /\ embedding_cache = <<>>
    /\ content = [i \in Ids |-> NoRecord]
    /\ content_ids = {}
    /\ call = [op |-> "__init__"]
    /\ returned = TRUE
    /\ results = <<>>
    /\ pending = [t \in Callers \cup Tasks |-> Idle]
    /\ acknowledged = {}

Init ==
    /\ Constructed
    /\ hash_seed = AnySeed
    /\ model_name \in ModelNames

\* the states after construction of a service whose model is never loaded
InitEngine == Init /\ model_name = DefaultModel

\* the same in a process of one hash seed, where what is checked does not
\* depend on the values of the mock embeddings
InitOneSeed ==
    /\ Constructed
    /\ hash_seed = OneSeed
    /\ model_name = DefaultModel

(***************************************************************************)
(* Coroutines. Every handler is cut at its awaits: one action runs a       *)
(* coroutine from its call, or from the completion of what it awaited, to  *)
(* its next await or to its return. A Redis command takes effect at one    *)
(* instant; the coroutine that awaited it returns in a later step.         *)
(***************************************************************************)
\* the task runs no call
free(t) == pending[t].state \in {"idle", "returned"}

\* the calls of coroutine t are recorded with what the store, the cache and
\* the call before held when they were made (history the properties of
\* consecutive calls read): those of the caller that awaits each call
observed(t) == t \in Callers

\* coroutine t is suspended at an await, with its locals in `frame`
suspends(t, frame) ==
    /\ pending' = [pending EXCEPT ![t] = frame]
    /\ call' = Running
    /\ returned' = TRUE
    /\ results' = <<>>
    /\ UNCHANGED acknowledged

\* what the caller of a call that has returned holds: the arguments it gave
\* and the value it got
returned_to_caller(c, value, list) ==
    IF c.op = "generate_embedding"
    THEN [state |-> "returned", op |-> c.op, text |-> c.text, hit |-> c.hit,
          during |-> c.during, value |-> c.embedding]
    ELSE IF c.op = "index_content"
    THEN [state |-> "returned", op |-> c.op, id |-> c.id, outcome |-> c.outcome,
          raised |-> c.raised, value |-> value]
    ELSE IF c.op = "search"
    THEN [state |-> "returned", op |-> c.op, value |-> list]
    ELSE [state |-> "returned", op |-> c.op]

\* coroutine t returns. c: the call and what it did; value: the boolean
\* returned; list: the list returned
returns(t, c, value, list) ==
    /\ pending' = [pending EXCEPT ![t] = returned_to_caller(c, value, list)]
    /\ call' = c
    /\ returned' = value
    /\ results' = list
    /\ acknowledged' =
           IF c.op = "index_content" /\ value THEN acknowledged \cup {c.id}
           ELSE acknowledged

\* the reply of Redis has arrived for coroutine t, which will return when the
\* event loop resumes it
replied(t, c, value, list) ==
    suspends(t, [state |-> "resume", call |-> c, returned |-> value,
                 results |-> list])

\* the event loop resumes coroutine t after the reply, and it returns
resume(t) ==
    /\ pending[t].state = "resume"
    /\ returns(t, pending[t].call, pending[t].returned, pending[t].results)
    /\ UNCHANGED <<model, dimension, embedding_cache, content, content_ids, process>>

(***************************************************************************)
(* EmbeddingService: what its methods compute.                             *)
(***************************************************************************)
\* EmbeddingService.generate_embedding run without interruption in a process
\* of this hash seed: the vector returned, the cache left behind, and whether
\* the except clause ran. encode_fails: self.model.encode raises during this
\* call.
generate_embedding(seed, text, encode_fails) ==
    LET cache_key == PyHash(text)
    IN IF cache_key \in DOMAIN embedding_cache
       THEN [embedding |-> embedding_cache[cache_key], cache |-> embedding_cache,
             raised |-> FALSE]
       ELSE IF model = "Loaded" /\ encode_fails
       THEN [embedding |-> generate_mock_embedding(seed, text, dimension),
             cache |-> embedding_cache, raised |-> TRUE]
       ELSE LET embedding_list ==
                    IF model = "Loaded"
                    THEN model_encode(text, ModelDimension(model_name))
                    ELSE generate_mock_embedding(seed, text, dimension)
            IN [embedding |-> embedding_list,
                cache |-> (cache_key :> embedding_list) @@ embedding_cache,
                raised |-> FALSE]

\* generate_embedding(text) awaits run_in_executor: the key is not cached and
\* a model is loaded
awaits_encode(text) ==
    PyHash(text) \notin DOMAIN embedding_cache /\ model = "Loaded"

\* the texts generate_embedding(text) computes a mock embedding of: the text,
\* when its key is not cached and no model is loaded or model.encode raises
mocked(text, encode_fails) ==
    IF PyHash(text) \in DOMAIN embedding_cache THEN {}
    ELSE IF model = "Loaded" /\ ~encode_fails THEN {}
    ELSE {text}

\* EmbeddingService.generate_batch_embeddings: the list returned. The cache
\* is neither read nor written; when model.encode raises, every vector is a
\* mock embedding.
generate_batch_embeddings(seed, texts, encode_fails) ==
    IF model = "Loaded" /\ ~encode_fails
    THEN [i \in 1..Len(texts) |->
             model_encode(texts[i], ModelDimension(model_name))]
    ELSE [i \in 1..Len(texts) |->
             generate_mock_embedding(seed, texts[i], dimension)]

\* the call before this one, when it was a generate_embedding
previous_embedding(t) ==
    IF observed(t) /\ call.op = "generate_embedding"
    THEN [op |-> "generate_embedding", text |-> call.text,
          embedding |-> call.embedding, hit |-> call.hit, raised |-> call.raised]
    ELSE [op |-> "other"]

\* generate_embedding(text) returns to the API layer: what it returned, the
\* cache key it used, whether the key was cached (hit) and whether the except
\* clause ran (raised)
generate_embedding_returns(t, frame, embedding, raised) ==
    returns(t, [op |-> "generate_embedding", text |-> frame.text,
                embedding |-> embedding, key |-> PyHash(frame.text),
                hit |-> frame.hit, raised |-> raised,
                during |-> frame.during, previous |-> frame.previous],
            TRUE, <<>>)

(***************************************************************************)
(* VectorSearchEngine.index_content.                                       *)
(***************************************************************************)
\* redis_data: the mapping written under "content:<id>"
redis_data(content_id, content_data, embedding) ==
    [exists |-> TRUE,
     id |-> content_id,
     title |-> content_data.title,
     content |-> content_data.content,
     category |-> content_data.category,
     tags |-> Join(content_data.tags),
     author |-> content_data.author,
     created_at |-> content_data.created_at.sec,
     embedding |-> JsonDumps(embedding),
     metadata |-> [json |-> "object", items |-> content_data.metadata]]

\* a write that sets only the fields the key does not hold yet
hset_if_absent(old, mapping) == IF old.exists THEN old ELSE mapping

\* redis.hset(key, mapping=redis_data): every field of the mapping is set
hset(old, mapping) == mapping

\* the embedding index_content stores: the caller's when the key is present
\* (whatever it holds), else the generated one
embedding_to_store(content_data, generated) ==
    IF content_data.embedding.kind = "absent" THEN List(generated)
    ELSE content_data.embedding

\* the call before this one was index_content on the same id with other
\* fields, and it returned True
second_call(content_id, content_data) ==
    /\ call.op = "index_content"
    /\ returned
    /\ call.id = content_id
    /\ call.fields # content_data

\* content_data.get("created_at", datetime.utcnow()).timestamp() raises: the
\* mapping holds a created_at that is not a datetime
malformed(content_data) == "sec" \notin DOMAIN content_data.created_at

\* content_data["embedding"] = embedding: the caller's mapping after the call
mutated(content_data, generated) ==
    [content_data EXCEPT !.embedding = embedding_to_store(content_data, generated)]

\* a function that reports success whatever happened
returns_true(raised_at) == TRUE

\* return True at the end of the try block, return False in the except
\* clause. raised_at: "ok", or the step of the try block that raised.
index_content_returns(raised_at) == raised_at = "ok"

\* index_content from the embedding to the await of hset: the mapping of the
\* caller is given the embedding and redis_data is built, or building it
\* raises and the call returns False. generated: the vector generate_embedding
\* gave (or would give) for the text; raised: model.encode raised.
index_content_prepare(t, frame, generated, raised) ==
    LET c == [op |-> "index_content", id |-> frame.id, fields |-> frame.fields,
              embedding |-> embedding_to_store(frame.fields, generated),
              outcome |-> IF malformed(frame.fields) THEN "input" ELSE "ok",
              raised |-> raised,
              again |-> frame.again,
              replaced |-> frame.replaced,
              member |-> frame.member,
              mapping |-> mutated(frame.fields, generated),
              supplied |-> frame.supplied,
              generated |-> generated]
    IN IF malformed(frame.fields)
       THEN returns(t, c, index_content_returns("input"), <<>>)
       ELSE suspends(t, [state |-> "hset", op |-> "index_content", call |-> c])

(***************************************************************************)
(* VectorSearchEngine.search and the search endpoint.                      *)
(***************************************************************************)
\* if query.category_filter and content_info.get("category") != filter: continue
filter_drops(category_filter, category) ==
    /\ category_filter.kind = "str"
    /\ category_filter.s # EmptyStr
    /\ category # category_filter.s

\* SearchResult(...) for one stored mapping
search_result(content_id, content_info, similarity) ==
    [id |-> content_id,
     title |-> content_info.title,
     content |-> content_info.content,
     category |-> content_info.category,
     tags |-> SplitTags(content_info.tags),
     author |-> content_info.author,
     score |-> similarity,
     distance |-> OneMinus(similarity),
     created_at |-> content_info.created_at]

\* the body of the loop over content_ids for one id: the results it appends.
\* unreadable: the ids for which hgetall raises.
candidate_results(content_id, query_vector, category_filter, unreadable) ==
    LET content_info == content[content_id]
    IN IF content_id \in unreadable \/ ~content_info.exists THEN <<>>
       ELSE LET content_embedding == JsonLoads(content_info.embedding)
            IN IF ~Truthy(content_embedding) THEN <<>>
               ELSE IF filter_drops(category_filter, content_info.category) THEN <<>>
               ELSE <<search_result(content_id, content_info,
                          cosine_similarity(query_vector, content_embedding.v))>>

RECURSIVE scan(_, _, _, _)
\* for content_id_bytes in content_ids: ... results.append(result)
scan(order, query_vector, category_filter, unreadable) ==
    IF order = <<>> THEN <<>>
    ELSE candidate_results(Head(order), query_vector, category_filter, unreadable)
         \o scan(Tail(order), query_vector, category_filter, unreadable)

\* the ids of a result list, in order
result_ids(rs) == [i \in 1..Len(rs) |-> rs[i].id]

\* the call before this one, when it was an index_content that returned True
NotIndexed ==
    [id |-> "", text |-> EmptyStr, generated |-> FALSE, raised |-> FALSE,
     tags |-> <<>>]
just_indexed ==
    IF call.op = "index_content" /\ returned
    THEN [id |-> call.id,
          text |-> call.fields.title \o Space \o call.fields.content,
          generated |-> call.fields.embedding.kind = "absent",
          raised |-> call.raised,
          tags |-> call.fields.tags]
    ELSE NotIndexed

\* the call before this one was a search with the same query
repeats_search(query) == call.op = "search" /\ call.query = query

\* the records a scan of the keys "content:*" would find
scan_keys == {id \in Ids : content[id].exists}

\* self.redis.smembers("content_ids")
smembers == content_ids

\* the vector of the query text, whatever the query carries
embed_query_text(query, generated) == generated

\* if query.vector is None: query.vector = generate_embedding(query.text)
resolve_vector(query, generated) ==
    IF query.vector.kind = "none" THEN generated ELSE query.vector.v

\* the Redis calls of a search that raised: smembers, and hgetall for the ids
\* in `hgetall`
NoFaults == [smembers |-> FALSE, hgetall |-> {}]

\* the characters that end a shortened content
Ellipsis == <<".", ".", ".">>

\* result.content[:200] + "..." if len(result.content) > 200 else result.content
shorten(text) ==
    IF Len(text) > ContentLimit THEN SubSeq(text, 1, ContentLimit) \o Ellipsis
    ELSE text

\* abs(hash(result.id)) % 24, the number in f"{...} hours ago", in a process
\* of this hash seed
time_ago(seed, content_id) == seed.hours[content_id]

\* SearchResultResponse(...) for one SearchResult
search_result_response(seed, result) ==
    [id |-> result.id,
     title |-> result.title,
     content |-> shorten(result.content),
     category |-> result.category,
     tags |-> PySlice(result.tags, TagLimit),
     author |-> result.author,
     score |-> result.score,
     time_ago |-> time_ago(seed, result.id)]

\* response_results: one SearchResultResponse per result, in order
response_results(seed, rs) ==
    [i \in 1..Len(rs) |-> search_result_response(seed, rs[i])]

\* the status of the response of search_content. raised: what was raised
\* inside the try block ("none" or "HTTPException(503)"); the except clause
\* answers every Exception, HTTPException included, with 500.
search_content_status(raised) == IF raised = "none" THEN 200 ELSE 500

\* the call record of search_content. vs: what get_services() gave for
\* app.main.vector_search; c: the call of vs.search it made, rs: its results
search_content_call(vs, query, c, rs) ==
    LET raised == IF vs = "None" THEN "HTTPException(503)" ELSE "none"
    IN [op |-> "search_content", vs |-> vs, query |-> query, order |-> c.order,
        faults |-> c.faults, raised |-> raised,
        status |-> search_content_status(raised),
        searched |-> result_ids(rs)]

\* search returns rs when the reply of its latest Redis command has arrived:
\* to the caller, or into search_content, which builds its response and
\* returns it (pm.record_request awaits nothing and raises nothing)
search_returns(t, frame, c, rs) ==
    IF frame.op = "search"
    THEN /\ replied(t, c, TRUE, rs)
         /\ UNCHANGED hash_seed
    ELSE \E seed \in hashed(hash_seed, {rs[i].id : i \in 1..Len(rs)}) :
             /\ hash_seed' = seed
             /\ replied(t, search_content_call("Engine", c.query, c, rs), TRUE,
                        response_results(seed, rs))

\* search from the query vector to the await of smembers. vector: what
\* generate_embedding gave for the text; raised: model.encode raised.
search_prepare(t, frame, generated, raised) ==
    LET query_vector == resolve_vector(frame.query, generated)
    IN suspends(t, [state |-> "smembers", op |-> frame.op,
                    call |-> [op |-> "search", query |-> frame.query,
                              order |-> <<>>, faults |-> NoFaults,
                              query_vector |-> query_vector,
                              query_after |-> [frame.query EXCEPT
                                                  !.vector = List(query_vector)],
                              cache_before |-> frame.cache_before,
                              raised |-> raised,
                              indexed |-> frame.indexed,
                              repeats |-> frame.repeats,
                              previous_ids |-> frame.previous_ids]])

(***************************************************************************)
(* EmbeddingService: its coroutines.                                       *)
(***************************************************************************)
\* generate_embedding has returned `embedding` to the coroutine that awaited
\* it: the caller of the service, index_content or search
embedded(t, frame, embedding, raised) ==
    IF frame.op = "generate_embedding"
    THEN generate_embedding_returns(t, frame, embedding, raised)
    ELSE IF frame.op = "index_content"
    THEN index_content_prepare(t, frame, embedding, raised)
    ELSE search_prepare(t, frame, embedding, raised)

\* generate_embedding(frame.text) up to its first suspension: a cache hit
\* returns; without a model the mock embedding is computed, cached and
\* returned with no await in between; with a model the coroutine awaits
\* run_in_executor.
start_embedding(t, frame) ==
    IF awaits_encode(frame.text)
    THEN /\ suspends(t, frame)
         /\ UNCHANGED <<embedding_cache, hash_seed>>
    ELSE \E seed \in seeded(hash_seed, mocked(frame.text, FALSE)) :
             LET gen == generate_embedding(seed, frame.text, FALSE)
             IN /\ hash_seed' = seed
                /\ embedding_cache' = gen.cache
                /\ embedded(t, frame, gen.embedding, FALSE)

\* the coroutine awaits run_in_executor: its job is queued or has run
encoding(t) == pending[t].state \in {"encoding", "encoded"}

\* a call of generate_embedding(text) by the API layer, in coroutine t.
\* during: the coroutines that were awaiting the executor when it started.
begin_generate_embedding(t, text) ==
    /\ free(t)
    /\ start_embedding(t,
           [state |-> "encoding", op |-> "generate_embedding", text |-> text,
            job |-> None,
            hit |-> PyHash(text) \in DOMAIN embedding_cache,
            during |-> {u \in Tasks : encoding(u)},
            previous |-> previous_embedding(t)])
    /\ UNCHANGED <<model, dimension, content, content_ids, model_name>>

\* lambda: self.model.encode([text])[0] run by a worker thread of the
\* executor: it reads self.model when it runs. The loaded model gives its
\* vector, of the model's dimension, or encode raises; when self.model is
\* None by now (initialize ran again and failed to load) the call raises.
\* The coroutine is resumed in a later step.
encode_job(t, encode_fails) ==
    /\ pending[t].state = "encoding"
    /\ suspends(t, [pending[t] EXCEPT
                       !.state = "encoded",
                       !.job = IF model = "Loaded" /\ ~encode_fails
                               THEN List(model_encode(pending[t].text,
                                                      ModelDimension(model_name)))
                               ELSE None])
    /\ UNCHANGED <<model, dimension, embedding_cache, content, content_ids,
                   process>>

\* generate_embedding resumed after run_in_executor: the vector is cached and
\* returned, or the job raised and the except clause returns the mock
\* embedding without caching it; the coroutine that awaited it goes on.
finish_generate_embedding(t) ==
    LET text == pending[t].text
        job == pending[t].job
    IN /\ pending[t].state = "encoded"
       /\ IF job = None
          THEN \E seed \in seeded(hash_seed, {text}) :
                   /\ hash_seed' = seed
                   /\ UNCHANGED embedding_cache
                   /\ embedded(t, pending[t],
                               generate_mock_embedding(seed, text, dimension),
                               TRUE)
          ELSE /\ embedding_cache' = (PyHash(text) :> job.v) @@ embedding_cache
               /\ embedded(t, pending[t], job.v, FALSE)
               /\ UNCHANGED hash_seed
       /\ UNCHANGED <<model, dimension, content, content_ids, model_name>>

\* generate_batch_embeddings(texts) returns `embeddings` to the API layer
generate_batch_embeddings_returns(t, texts, embeddings, encode_fails) ==
    returns(t, [op |-> "generate_batch_embeddings", texts |-> texts,
                embeddings |-> embeddings, encode_fails |-> encode_fails],
            TRUE, <<>>)

\* return [self._generate_mock_embedding(text) for text in texts]
mock_batch_returns(t, texts, encode_fails) ==
    \E seed \in seeded(hash_seed, {texts[i] : i \in 1..Len(texts)}) :
        /\ hash_seed' = seed
        /\ generate_batch_embeddings_returns(t, texts,
               [i \in 1..Len(texts) |->
                   generate_mock_embedding(seed, texts[i], dimension)],
               encode_fails)

\* a call of generate_batch_embeddings(texts) by the API layer: without a
\* model it returns the mock embeddings, with one it awaits run_in_executor
begin_generate_batch_embeddings(t, texts) ==
    /\ free(t)
    /\ IF model = "Loaded"
       THEN /\ suspends(t, [state |-> "encoding_batch",
                            op |-> "generate_batch_embeddings", texts |-> texts,
                            job |-> None])
            /\ UNCHANGED hash_seed
       ELSE mock_batch_returns(t, texts, FALSE)
    /\ UNCHANGED <<model, dimension, embedding_cache, content, content_ids,
                   model_name>>

\* lambda: self.model.encode(texts) run by a worker thread of the executor:
\* the vectors of the loaded model, or the call raises (encode fails, or
\* self.model is None by now)
encode_batch_job(t, encode_fails) ==
    LET texts == pending[t].texts
    IN /\ pending[t].state = "encoding_batch"
       /\ suspends(t, [pending[t] EXCEPT
                          !.state = "encoded_batch",
                          !.job = IF model = "Loaded" /\ ~encode_fails
                                  THEN List([i \in 1..Len(texts) |->
                                                model_encode(texts[i],
                                                    ModelDimension(model_name))])
                                  ELSE None])
       /\ UNCHANGED <<model, dimension, embedding_cache, content, content_ids,
                      process>>

\* generate_batch_embeddings resumed after run_in_executor: the vectors are
\* returned, or the job raised and the except clause returns mock embeddings
finish_generate_batch_embeddings(t) ==
    LET job == pending[t].job
    IN /\ pending[t].state = "encoded_batch"
       /\ IF job = None
          THEN mock_batch_returns(t, pending[t].texts, TRUE)
          ELSE /\ generate_batch_embeddings_returns(t, pending[t].texts, job.v,
                                                    FALSE)
               /\ UNCHANGED hash_seed
       /\ UNCHANGED <<model, dimension, embedding_cache, content, content_ids,
                      model_name>>

\* EmbeddingService.initialize up to the await of run_in_executor. importable:
\* sentence_transformers can be imported; when it cannot, the service uses
\* mock embeddings and initialize returns. The cache is left as it is.
initialize(t, importable) ==
    /\ free(t)
    /\ IF importable
       THEN /\ suspends(t, [state |-> "loading", op |-> "initialize"])
            /\ UNCHANGED <<model, dimension>>
       ELSE /\ model' = "None"
            /\ dimension' = DefaultDimension
            /\ returns(t, [op |-> "initialize", loads |-> FALSE], TRUE, <<>>)
    /\ UNCHANGED <<embedding_cache, content, content_ids, process>>

\* initialize resumed after run_in_executor: the model is loaded and the
\* dimension is the model's, or loading raised and the service uses mock
\* embeddings; the cache is left as it is.
initialize_load(t, loads) ==
    /\ pending[t].state = "loading"
    /\ model' = IF loads THEN "Loaded" ELSE "None"
    /\ dimension' = IF loads THEN ModelDimension(model_name) ELSE DefaultDimension
    /\ returns(t, [op |-> "initialize", loads |-> loads], TRUE, <<>>)
    /\ UNCHANGED <<embedding_cache, content, content_ids, process>>

(***************************************************************************)
(* VectorSearchEngine.index_content: its coroutine.                        *)
(***************************************************************************)
\* index_content(content_id, content_data) from its call: the embedding is
\* generated when the mapping has no key "embedding". same_mapping:
\* content_data is the mapping object of the call before, passed again by
\* the caller.
index_content(t, content_id, content_data, same_mapping) ==
    LET text == text_to_embed(content_data.title, content_data.content)
        generates == content_data.embedding.kind = "absent"
        frame == [state |-> "encoding", op |-> "index_content", text |-> text,
                  job |-> None,
                  id |-> content_id, fields |-> content_data,
                  again |-> observed(t) /\ second_call(content_id, content_data),
                  replaced |-> IF observed(t) THEN content[content_id] ELSE NoRecord,
                  member |-> observed(t) /\ content_id \in content_ids,
                  supplied |-> IF same_mapping THEN call.supplied ELSE ~generates]
    IN /\ free(t)
       /\ IF generates THEN start_embedding(t, frame)
          ELSE /\ UNCHANGED <<embedding_cache, hash_seed>>
               /\ index_content_prepare(t, frame, <<>>, FALSE)
       /\ UNCHANGED <<model, dimension, content, content_ids, model_name>>

\* await self.redis.hset(key, mapping=redis_data): the one command writes
\* every field, or raises and the call will return False
index_content_hset(t, raises) ==
    LET c == pending[t].call
    IN /\ pending[t].state = "hset"
       /\ IF raises
          THEN /\ replied(t, [c EXCEPT !.outcome = "hset"],
                          index_content_returns("hset"), <<>>)
               /\ UNCHANGED content
          ELSE /\ suspends(t, [pending[t] EXCEPT !.state = "sadd"])
               /\ content' = [content EXCEPT ![c.id] =
                                 hset(@, redis_data(c.id, c.fields, c.embedding))]
       /\ UNCHANGED <<model, dimension, embedding_cache, content_ids, process>>

\* await self.redis.sadd("content_ids", content_id): the id joins the set and
\* the call will return True, or the command raises and it will return False
index_content_sadd(t, raises) ==
    LET c == pending[t].call
    IN /\ pending[t].state = "sadd"
       /\ IF raises
          THEN /\ replied(t, [c EXCEPT !.outcome = "sadd"],
                          index_content_returns("sadd"), <<>>)
               /\ UNCHANGED content_ids
          ELSE /\ replied(t, c, index_content_returns("ok"), <<>>)
               /\ content_ids' = content_ids \cup {c.id}
       /\ UNCHANGED <<model, dimension, embedding_cache, content, process>>

(***************************************************************************)
(* VectorSearchEngine.search: its coroutine.                               *)
(***************************************************************************)
\* the locals of a search of `query` that coroutine t starts now, run by `op`
search_frame(t, op, query) ==
    [state |-> "encoding", op |-> op, text |-> query.text, query |-> query,
     job |-> None,
     cache_before |-> IF observed(t) THEN embedding_cache ELSE <<>>,
     indexed |-> IF observed(t) THEN just_indexed ELSE NotIndexed,
     repeats |-> observed(t) /\ repeats_search(query),
     previous_ids |-> IF observed(t) /\ repeats_search(query)
                      THEN result_ids(results) ELSE <<>>]

\* search(query) from its call: the vector is generated when the query
\* carries none
search_start(t, frame) ==
    IF frame.query.vector.kind = "none" THEN start_embedding(t, frame)
    ELSE /\ UNCHANGED <<embedding_cache, hash_seed>>
         /\ search_prepare(t, frame, <<>>, FALSE)

\* a call of search(query) by coroutine t
search(t, query) ==
    /\ free(t)
    /\ search_start(t, search_frame(t, "search", query))
    /\ UNCHANGED <<model, dimension, content, content_ids, model_name>>

\* content_ids = await self.redis.smembers("content_ids"): the members at
\* this instant, in the order the loop will take them; [] will be returned
\* when there is none or when the command raises
search_smembers(t, order, raises) ==
    LET c == pending[t].call
    IN /\ pending[t].state = "smembers"
       /\ order \in Orders(smembers)
       /\ IF raises
          THEN search_returns(t, pending[t], [c EXCEPT !.faults.smembers = TRUE], <<>>)
          ELSE IF order = <<>>
          THEN search_returns(t, pending[t], c, <<>>)
          ELSE /\ suspends(t, [state |-> "hgetall", op |-> pending[t].op,
                               call |-> [c EXCEPT !.order = order],
                               content_ids |-> order, results |-> <<>>])
               /\ UNCHANGED hash_seed
       /\ UNCHANGED <<model, dimension, embedding_cache, content, content_ids,
                      model_name>>

\* content_data = await self.redis.hgetall(...) for the next id and the rest
\* of the loop body; after the last id, the sort and the slice
search_hgetall(t, raises) ==
    LET c == pending[t].call
        content_id == Head(pending[t].content_ids)
        found == pending[t].results
                 \o candidate_results(content_id, c.query_vector,
                        c.query.category_filter,
                        IF raises THEN {content_id} ELSE {})
        rest == Tail(pending[t].content_ids)
        read == IF raises THEN [c EXCEPT !.faults.hgetall = @ \cup {content_id}]
                ELSE c
    IN /\ pending[t].state = "hgetall"
       /\ IF rest = <<>>
          THEN \E sorted \in sorted_by_score(found) :
                   search_returns(t, pending[t], read, PySlice(sorted, c.query.k))
          ELSE /\ suspends(t, [pending[t] EXCEPT !.call = read,
                                                 !.content_ids = rest,
                                                 !.results = found])
               /\ UNCHANGED hash_seed
       /\ UNCHANGED <<model, dimension, embedding_cache, content, content_ids,
                      model_name>>

(***************************************************************************)
(* VectorSearchEngine.get_content_count and the search endpoint.           *)
(***************************************************************************)
\* the number of ids that have a hash "content:<id>"
count_keys == Cardinality(scan_keys)

\* self.redis.scard("content_ids")
scard == Cardinality(content_ids)

\* what get_content_count returns: scard, or 0 when the Redis call raises
content_count(scard_fails) == IF scard_fails THEN 0 ELSE scard

\* get_content_count() from its call to the await of scard
get_content_count(t) ==
    /\ free(t)
    /\ suspends(t, [state |-> "scard", op |-> "get_content_count"])
    /\ UNCHANGED <<model, dimension, embedding_cache, content, content_ids, process>>

\* await self.redis.scard("content_ids"): the number of members at this
\* instant, or the command raises and 0 will be returned
get_content_count_scard(t, scard_fails) ==
    /\ pending[t].state = "scard"
    /\ replied(t, [op |-> "get_content_count", scard_fails |-> scard_fails,
                   count |-> content_count(scard_fails)], TRUE, <<>>)
    /\ UNCHANGED <<model, dimension, embedding_cache, content, content_ids, process>>

\* SearchQuery(text=request.query, k=request.k, category_filter=request.category)
search_query(request) ==
    [text |-> request.query, vector |-> None, k |-> request.k,
     category_filter |-> request.category]

\* POST /search. vs: what get_services() gives for app.main.vector_search
\* ("None" before the lifespan has set it, else "Engine"). Without a service
\* HTTPException(503) is raised inside the try block and the except clause
\* answers; with one a new SearchQuery is searched.
search_content(t, vs, request) ==
    /\ free(t)
    /\ IF vs = "None"
       THEN /\ returns(t, search_content_call(vs, search_query(request),
                                              [order |-> <<>>, faults |-> NoFaults],
                                              <<>>),
                       TRUE, <<>>)
            /\ UNCHANGED <<embedding_cache, hash_seed>>
       ELSE search_start(t, search_frame(t, "search_content", search_query(request)))
    /\ UNCHANGED <<model, dimension, content, content_ids, model_name>>
(***************************************************************************)
(* EmotionDetection.emotion_detector. Scores are in units of 0.0001.       *)
(***************************************************************************)
Score(n) == [kind |-> "score", v |-> n]

\* str.lower on the letters the inputs use
LowerChar(c) == IF c = "H" THEN "h" ELSE IF c = "N" THEN "n" ELSE c
Lower(text) == [i \in 1..Len(text) |-> LowerChar(text[i])]

\* str.strip: leading and trailing whitespace removed
RECURSIVE LStrip(_)
LStrip(text) ==
    IF text # <<>> /\ Head(text) = " " THEN LStrip(Tail(text)) ELSE text
Strip(text) == Reverse(LStrip(Reverse(LStrip(text))))

\* word in text: the substring test
Contains(text, word) ==
    \E i \in 0..(Len(text) - Len(word)) :
        SubSeq(text, i + 1, i + Len(word)) = word

fear_words ==
    << <<"a","f","r","a","i","d">>, <<"s","c","a","r","e","d">>,
       <<"w","o","r","r","y">>, <<"a","n","x","i","o","u","s">>,
       <<"n","e","r","v","o","u","s">>, <<"p","a","n","i","c">>,
       <<"f","e","a","r">> >>

disgust_words ==
    << <<"d","i","s","g","u","s","t","i","n","g">>, <<"g","r","o","s","s">>,
       <<"a","w","f","u","l">>, <<"t","e","r","r","i","b","l","e">>,
       <<"h","o","r","r","i","b","l","e">>, <<"h","a","t","e">> >>

\* sum(1 for word in words if word in text_lower)
word_count(words, text_lower) ==
    Cardinality({i \in 1..Len(words) : Contains(text_lower, words[i])})

Min(a, b) == IF a <= b THEN a ELSE b

\* the dictionary returned for an invalid or empty input and after an error
no_emotion ==
    [anger |-> None, disgust |-> None, fear |-> None, joy |-> None,
     sadness |-> None, dominant_emotion |-> None]

\* the order of the keys of emotion_scores
emotion_names == <<"anger", "disgust", "fear", "joy", "sadness">>

\* max(emotion_scores, key=emotion_scores.get): the first key, in the order
\* of the dictionary, whose score is the greatest
dominant_of(scores) ==
    LET best == CHOOSE i \in 1..5 :
                    /\ \A j \in 1..5 : scores[emotion_names[j]] <= scores[emotion_names[i]]
                    /\ \A j \in 1..(i - 1) : scores[emotion_names[j]] < scores[emotion_names[i]]
    IN emotion_names[best]

\* the scores of lines 64-112 from the VADER scores, the TextBlob sentiment
\* and the stripped text
emotion_scores(text, vader, sentiment) ==
    LET compound == vader.compound
        text_lower == Lower(text)
        fear_count == word_count(fear_words, text_lower)
        disgust_count == word_count(disgust_words, text_lower)
        joy == IF compound > 1000 THEN Min((vader.pos * 12) \div 10, 10000)
               ELSE 0
        sadness == IF compound < 0 - 1000 /\ sentiment.polarity < 0
                   THEN Min((vader.neg * 11) \div 10, 10000) ELSE 0
        anger == IF compound < 0 - 3000 /\ sentiment.subjectivity > 5000
                 THEN Min((vader.neg * 9) \div 10, 10000) ELSE 0
        fear == IF fear_count > 0
                   \/ (compound < 0 - 2000 /\ Contains(text_lower, <<"n","o","t">>))
                THEN Min(vader.neg + fear_count * 2000, 10000) ELSE 0
        disgust == IF compound < 0 - 4000 \/ disgust_count > 0
                   THEN Min((vader.neg * 8) \div 10 + disgust_count * 3000, 10000)
                   ELSE 0
        neutral == anger = 0 /\ disgust = 0 /\ fear = 0 /\ joy = 0 /\ sadness = 0
    IN [anger |-> anger, disgust |-> disgust, fear |-> fear,
        joy |-> IF neutral /\ compound >= 0 THEN 3000 ELSE joy,
        sadness |-> IF neutral /\ compound < 0 THEN 3000 ELSE sadness]

\* emotion_detector(text_to_analyse) for a str. vader and sentiment: what
\* the two analysers answer for the stripped text; raises: an analyser raises.
emotion_detector(text_to_analyse, vader, sentiment, raises) ==
    IF text_to_analyse = EmptyStr THEN no_emotion
    ELSE IF Strip(text_to_analyse) = EmptyStr THEN no_emotion
    ELSE IF raises THEN no_emotion
    ELSE LET scores == emotion_scores(Strip(text_to_analyse), vader, sentiment)
         IN [anger |-> Score(scores.anger), disgust |-> Score(scores.disgust),
             fear |-> Score(scores.fear), joy |-> Score(scores.joy),
             sadness |-> Score(scores.sadness),
             dominant_emotion |-> Str(dominant_of(scores))]

\* the texts the callers and the tests analyse
EmotionTexts ==
    {EmptyStr, <<" ">>, <<" ", "x", " ">>, <<"N","o","t">>,
     <<"f","e","a","r">>, <<"H","a","t","e">>}

\* answers of SentimentIntensityAnalyzer.polarity_scores
VaderScores ==
    [compound : {0 - 5000, 0 - 2500, 0 - 1500, 0, 5000},
     pos : {0, 10000}, neg : {0, 10000}]

\* answers of TextBlob(...).sentiment
Sentiments == [polarity : {0 - 5000, 0}, subjectivity : {0, 10000}]

call_emotion_detector(text_to_analyse, vader, sentiment, raises) ==
    /\ call' = [op |-> "emotion_detector", text_to_analyse |-> text_to_analyse,
                vader |-> vader, sentiment |-> sentiment, raises |-> raises,
                result |-> emotion_detector(text_to_analyse, vader, sentiment, raises)]
    /\ returned' = TRUE
    /\ results' = <<>>
    /\ UNCHANGED <<model, dimension, embedding_cache, content, content_ids,
                 pending, acknowledged, process>>

(***************************************************************************)
(* The system: the calls the API layer makes and the steps of the          *)
(* coroutines, in any order. tasks: the coroutines that run; failures: the *)
(* answers to "does it raise" the environment can give.                    *)
(***************************************************************************)
Never == {FALSE}

Initialize(tasks) ==
    \E t \in tasks, importable \in BOOLEAN : initialize(t, importable)

LoadModel(tasks) == \E t \in tasks, loads \in BOOLEAN : initialize_load(t, loads)

IndexContent(tasks, inputs) ==
    \E t \in tasks, content_id \in Ids, content_data \in inputs :
        index_content(t, content_id, content_data, FALSE)

\* the caller passes the mapping of its latest index_content call again, with
\* the title it now wants indexed
IndexSameMapping(tasks) ==
    /\ call.op = "index_content"
    /\ \E t \in tasks, content_id \in Ids, title \in Titles :
           index_content(t, content_id, [call.mapping EXCEPT !.title = title], TRUE)

\* the executor runs the job of a coroutine that awaits it
EncodeJob(tasks) ==
    \E t \in tasks, encode_fails \in BOOLEAN : encode_job(t, encode_fails)

Encode(tasks) == \E t \in tasks : finish_generate_embedding(t)

EncodeBatchJob(tasks) ==
    \E t \in tasks, encode_fails \in BOOLEAN : encode_batch_job(t, encode_fails)

EncodeBatch(tasks) == \E t \in tasks : finish_generate_batch_embeddings(t)

HsetReplies(tasks, failures) ==
    \E t \in tasks, raises \in failures : index_content_hset(t, raises)

SaddReplies(tasks, failures) ==
    \E t \in tasks, raises \in failures : index_content_sadd(t, raises)

Search(tasks, queries) == \E t \in tasks, query \in queries : search(t, query)

\* the caller passes the SearchQuery object of its latest search again, with
\* the text it now wants searched
SearchSameQuery(tasks, texts) ==
    /\ call.op = "search"
    /\ \E t \in tasks, text \in texts :
           search(t, [call.query_after EXCEPT !.text = text])

SmembersReplies(tasks, failures) ==
    \E t \in tasks, order \in Orders(smembers), raises \in failures :
        search_smembers(t, order, raises)

HgetallReplies(tasks, failures) ==
    \E t \in tasks, raises \in failures : search_hgetall(t, raises)

Resumes(tasks) == \E t \in tasks : resume(t)

\* the steps of the coroutine of the one caller
Resume == Resumes(Callers)
Load == LoadModel(Callers)
Job == EncodeJob(Callers)
Encoded == Encode(Callers)
HsetDone == HsetReplies(Callers, Never)
HsetReplied == HsetReplies(Callers, BOOLEAN)
SaddDone == SaddReplies(Callers, Never)
SaddReplied == SaddReplies(Callers, BOOLEAN)
SmembersDone == SmembersReplies(Callers, Never)
SmembersReplied == SmembersReplies(Callers, BOOLEAN)
HgetallDone == HgetallReplies(Callers, Never)
HgetallReplied == HgetallReplies(Callers, BOOLEAN)

\* ranking: every query over a store filled and read with Redis failures
IndexForRanking == IndexContent(Callers, RankingFields)
SearchRanked == Search(Callers, SearchQueries)
Next ==
    IndexForRanking \/ HsetReplied \/ SaddReplied \/ SearchRanked
        \/ SmembersReplied \/ HgetallReplied \/ Resume
Spec == InitEngine /\ [][Next]_vars

\* the store: every field and every embedding input, Redis failures
IndexIntoStore == IndexContent(Callers, StoreFields)
SearchStore == Search(Callers, ProbeQueries)
NextIndex ==
    IndexIntoStore \/ HsetReplied \/ SaddReplied \/ SearchStore \/ SmembersDone
        \/ HgetallDone \/ Resume
SpecIndex == InitEngine /\ [][NextIndex]_vars

\* the embedder behind the engine: model loaded or not, encode failures,
\* Redis failures
StartService == Initialize(Callers)
IndexTexts == IndexContent(Callers, TextFields)
SearchTexts == Search(Callers, TextQueries)
NextEmbed ==
    StartService \/ Load \/ IndexTexts \/ Job \/ Encoded \/ HsetReplied
        \/ SaddReplied \/ SearchTexts \/ SmembersReplied \/ HgetallReplied \/ Resume
SpecEmbed == Init /\ [][NextEmbed]_vars

\* the embedder alone: texts with the same hash, the model loaded or not,
\* encode failures
EmbedTexts == \E t \in Callers, text \in Texts : begin_generate_embedding(t, text)
EmbedBatch ==
    \E t \in Callers, texts \in TextLists : begin_generate_batch_embeddings(t, texts)
BatchJob == EncodeBatchJob(Callers)
BatchEncoded == EncodeBatch(Callers)
NextService ==
    StartService \/ Load \/ EmbedTexts \/ Job \/ Encoded \/ EmbedBatch
        \/ BatchJob \/ BatchEncoded
SpecService == Init /\ [][NextService]_vars

\* the API: the count and the search endpoint over a store written with
\* Redis failures
ApiRequests ==
    {[query |-> <<"a", " ", "a">>, k |-> k, category |-> f] :
        k \in 1..MaxK, f \in {None, Str(Tech)}}

\* a content longer than the endpoint shows, more tags than it shows
LongContent == [i \in 1..(ContentLimit + 1) |-> "a"]
ManyTags == [i \in 1..(TagLimit + 1) |-> <<"a">>]
ApiFields ==
    {BaseFields, [OtherFields EXCEPT !.content = LongContent, !.tags = ManyTags]}

\* c1 is indexed with each of these, c2 with a mapping whose embedding is
\* None (a record no search returns)
IndexApi ==
    \E t \in Callers :
        \/ \E content_data \in ApiFields :
               index_content(t, "c1", content_data, FALSE)
        \/ index_content(t, "c2", [BaseFields EXCEPT !.embedding = None], FALSE)
GetContentCount == \E t \in Callers : get_content_count(t)
ScardReplied ==
    \E t \in Callers, scard_fails \in BOOLEAN : get_content_count_scard(t, scard_fails)
SearchContent ==
    \E t \in Callers, vs \in {"None", "Engine"}, request \in ApiRequests :
        search_content(t, vs, request)
NextApi ==
    IndexApi \/ HsetReplied \/ SaddReplied \/ GetContentCount \/ ScardReplied
        \/ SearchContent \/ SmembersReplied \/ HgetallReplied \/ Resume
SpecApi == InitEngine /\ [][NextApi]_vars

\* tags: records indexed with every tag list, then read back by a search,
\* also by one that passes its SearchQuery object again
IndexTags == IndexContent(Callers, TagFields)
SearchTags == Search(Callers, ProbeQueries)
SearchAgain == SearchSameQuery(Callers, {EmptyStr})
NextTags ==
    IndexTags \/ HsetDone \/ SaddDone \/ SearchTags \/ SearchAgain
        \/ SmembersDone \/ HgetallDone \/ Resume
SpecTags == InitEngine /\ [][NextTags]_vars

\* concurrent generate_embedding calls on a service initialised once, at
\* startup (the lifespan of app.main)
Startup == call.op = "__init__" /\ Initialize(Tasks)
ModelLoads == LoadModel(Tasks)
RaceTexts == {BaseText, EmptyStr}
BeginEmbedding ==
    \E t \in Tasks, text \in RaceTexts : begin_generate_embedding(t, text)
ExecutorJob == EncodeJob(Tasks)
FinishEmbedding == Encode(Tasks)
NextRace ==
    Startup \/ ModelLoads \/ BeginEmbedding \/ ExecutorJob \/ FinishEmbedding
SpecRace == InitOneSeed /\ [][NextRace]_vars

\* initialize is public: a coroutine awaits it again while others await the
\* executor in generate_embedding or generate_batch_embeddings
Reinitialize == Initialize(Tasks)
BeginBatch ==
    \E t \in Tasks, texts \in TextLists : begin_generate_batch_embeddings(t, texts)
ExecutorBatchJob == EncodeBatchJob(Tasks)
FinishBatch == EncodeBatch(Tasks)
BeginOneEmbedding == \E t \in Tasks : begin_generate_embedding(t, BaseText)
NextReload ==
    Reinitialize \/ ModelLoads \/ BeginOneEmbedding \/ ExecutorJob
        \/ FinishEmbedding \/ BeginBatch \/ ExecutorBatchJob \/ FinishBatch
InitReload ==
    /\ Constructed
    /\ hash_seed = OneSeed
    /\ model_name \in ModelNames
SpecReload == InitReload /\ [][NextReload]_vars

\* concurrent index_content and search calls, Redis commands that raise
BeginIndexContent == IndexContent(Tasks, ConcurrentFields)
Hset == HsetReplies(Tasks, BOOLEAN)
Sadd == SaddReplies(Tasks, BOOLEAN)
BeginSearch == Search(Tasks, ConcurrentQueries)
Smembers == SmembersReplies(Tasks, BOOLEAN)
Hgetall == HgetallReplies(Tasks, BOOLEAN)
Return == Resumes(Tasks)
NextConcurrent ==
    BeginIndexContent \/ Hset \/ Sadd \/ BeginSearch \/ Smembers \/ Hgetall
        \/ Return
SpecConcurrent == InitOneSeed /\ [][NextConcurrent]_vars

\* reads under failures: Redis calls that raise in index_content and in
\* search, records without a usable embedding, vectors of another length
IndexFaulty == IndexContent(Callers, FaultFields)
SearchFaulty == Search(Callers, FaultQueries)
NextFaults ==
    IndexFaulty \/ HsetReplied \/ SaddReplied \/ SearchFaulty \/ SmembersReplied
        \/ HgetallReplied \/ Resume
SpecFaults == InitEngine /\ [][NextFaults]_vars

\* writes under failures: Redis calls that raise, encode failures, malformed
\* inputs, and a caller that passes its mapping again
IndexWrites == IndexContent(Callers, WriteFields)
IndexAgain == IndexSameMapping(Callers)
NextWrites ==
    StartService \/ Load \/ IndexWrites \/ IndexAgain \/ Job \/ Encoded
        \/ HsetReplied \/ SaddReplied \/ Resume
SpecWrites == Init /\ [][NextWrites]_vars

\* the causes of failure: index_content calls of two coroutines on a service
\* whose model was loaded at startup, model.encode and Redis commands that
\* raise
IndexCauses == IndexContent(Tasks, {BaseFields})
NextCauses ==
    Startup \/ ModelLoads \/ IndexCauses \/ ExecutorJob \/ FinishEmbedding \/ Hset
        \/ Sadd \/ Return
SpecCauses == InitOneSeed /\ [][NextCauses]_vars

\* the emotion detector: empty, blank and worded texts, every answer of the
\* two analysers, an analyser that raises
EmotionDetector ==
    \E text \in EmotionTexts, vader \in VaderScores, sentiment \in Sentiments,
       raises \in BOOLEAN :
        call_emotion_detector(text, vader, sentiment, raises)
SpecEmotion == InitOneSeed /\ [][EmotionDetector]_vars

(***************************************************************************)
(* Properties of search, checked under Spec.                               *)
(***************************************************************************)
\* what the loop of the latest search collected, before sorting and slicing
Collected ==
    scan(call.order, call.query_vector, call.query.category_filter,
         call.faults.hgetall)

\* C1: for every store content, every query and every positive result limit
\* k, search returns a list of at most k results.
C1_AtMostK ==
    (call.op = "search" /\ call.query.k > 0) => Len(results) <= call.query.k

\* C1 witness: a search with k = 1 that collected two results returned one.
C1_Witness ==
    /\ call.op = "search"
    /\ call.query.k = 1
    /\ Len(Collected) = 2
    /\ Len(results) = 1

\* C2: for every store content and every query whose result limit k is zero
\* or negative, search returns the empty list.
C2_NonPositiveKEmpty ==
    (call.op = "search" /\ call.query.k <= 0) => results = <<>>

\* C3: in every list search returns the scores are in non-increasing order:
\* for all positions i < j, result[i].score >= result[j].score.
C3_ScoresNonIncreasing ==
    call.op = "search" =>
        \A i, j \in 1..Len(results) : i < j => FGeq(results[i].score, results[j].score)

\* C4: two search calls with the same query against the same stored records
\* return the same sequence of ids, whatever order the store enumerates its
\* identifiers in.
C4_SameIdsWhateverOrder ==
    (call.op = "search" /\ call.repeats) => result_ids(results) = call.previous_ids

\* C5: for every supplied category filter string f, the empty string
\* included, every result has category exactly f (so the result is empty when
\* no stored record has category f).
C5_FilterExact ==
    (call.op = "search" /\ call.query.category_filter.kind = "str") =>
        \A i \in 1..Len(results) : results[i].category = call.query.category_filter.s

\* C10: every SearchResult returned by search satisfies distance = 1 - score.
C10_DistanceIsOneMinusScore ==
    call.op = "search" =>
        \A i \in 1..Len(results) : FEq(results[i].distance, OneMinus(results[i].score))

\* every component of the vector is zero (its norm is zero)
IsZeroVector(v) == \A i \in 1..Len(v) : v[i] = 0

\* the embedding stored under id, parsed
StoredVector(id) == JsonLoads(content[id].embedding).v

\* C15: the similarity search computes for a result is exactly 0.0 when the
\* query vector or the stored embedding has zero norm, and it is 1.0, up to
\* the rounding of the division, when the two are the same nonzero vector.
C15_ZeroNormGivesZero ==
    call.op = "search" =>
        \A i \in 1..Len(results) :
            LET stored == StoredVector(results[i].id)
            IN /\ (IsZeroVector(call.query_vector) \/ IsZeroVector(stored)) =>
                      FEq(results[i].score, Zero)
               /\ (stored = call.query_vector /\ ~IsZeroVector(stored)) =>
                      AboutOne(results[i].score)

(***************************************************************************)
(* Properties of the store, checked under SpecIndex.                       *)
(***************************************************************************)
\* the mapping stored under id holds the fields of content_data, with
\* `embedding` as its embedding
HoldsFields(stored, content_data, embedding) ==
    /\ stored.exists
    /\ stored.title = content_data.title
    /\ stored.content = content_data.content
    /\ stored.category = content_data.category
    /\ stored.tags = Join(content_data.tags)
    /\ stored.author = content_data.author
    /\ stored.created_at = content_data.created_at.sec
    /\ JsonLoads(stored.embedding) = embedding
    /\ stored.metadata.items = content_data.metadata

\* C7: after index_content is called twice with the same id and different
\* fields and both calls return True, the record stored under that id holds
\* every field of the second call, and the id is in the identifier set.
C7_Overwrite ==
    (call.op = "index_content" /\ call.again /\ returned) =>
        /\ HoldsFields(content[call.id], call.fields, call.embedding)
        /\ call.id \in content_ids

\* C7 witness: the second call replaced a record that differed from the
\* stored one in every field.
C7_Witness ==
    /\ call.op = "index_content"
    /\ call.again
    /\ returned
    /\ call.replaced.exists
    /\ call.replaced.title # content[call.id].title
    /\ call.replaced.content # content[call.id].content
    /\ call.replaced.category # content[call.id].category
    /\ call.replaced.tags # content[call.id].tags
    /\ call.replaced.author # content[call.id].author
    /\ call.replaced.created_at # content[call.id].created_at
    /\ call.replaced.embedding # content[call.id].embedding
    /\ call.replaced.metadata # content[call.id].metadata

\* the record stored under id has an embedding: a non-empty list
HasEmbedding(id) == Truthy(JsonLoads(content[id].embedding))

\* C8: a write of a record whose embedding is None or empty is rejected and
\* leaves the store unchanged; in every reachable state no stored record
\* lacks an embedding.
C8_IncompleteRecordRejected ==
    /\ \A id \in Ids : content[id].exists => HasEmbedding(id)
    /\ (call.op = "index_content" /\ ~Truthy(call.embedding)) =>
           (~returned /\ content[call.id] = call.replaced)

\* C9: in every reachable state, every record in the content store has an
\* embedding whose length equals the embedding service's configured
\* dimension, records indexed with a caller-supplied embedding included.
C9_EmbeddingHasDimension ==
    \A id \in Ids :
        content[id].exists =>
            /\ JsonLoads(content[id].embedding).kind = "list"
            /\ Len(JsonLoads(content[id].embedding).v) = dimension

\* a search result carries the fields of one mapping given to index_content
OfOneMapping(result) ==
    \E content_data \in ConcurrentFields :
        /\ result.title = content_data.title
        /\ result.content = content_data.content
        /\ result.category = content_data.category
        /\ result.tags = content_data.tags
        /\ result.author = content_data.author
        /\ result.created_at = content_data.created_at.sec

\* every member of the identifier set has a record with every field
MemberHasRecord ==
    \A id \in content_ids :
        /\ content[id].exists
        /\ DOMAIN content[id] = DOMAIN redis_data(id, BaseFields, None)

\* what a search returns for an id is one whole record: the old one or the
\* new one, never fields of both
SearchSeesWholeRecords ==
    \A t \in Tasks :
        (pending[t].state = "returned" /\ pending[t].op = "search")
            => \A i \in 1..Len(pending[t].value) :
                   OfOneMapping(pending[t].value[i])

\* C25: in every state the interleavings of the steps of index_content and
\* search calls reach, every member of the identifier set has a complete
\* record (every field present and a non-empty embedding), and what a search
\* returns for an id is one whole record stored under it. Checked under
\* SpecConcurrent.
C25_MemberIsComplete ==
    /\ MemberHasRecord
    /\ \A id \in content_ids : HasEmbedding(id)
    /\ SearchSeesWholeRecords

(***************************************************************************)
(* Index, then search by the same text: checked under SpecEmbed.           *)
(***************************************************************************)
\* the latest call is a search by text, unfiltered, with k >= 1, and the call
\* before it was an index_content that returned True, without a supplied
\* embedding, whose title + ' ' + content is the query text
SearchesIndexedText ==
    /\ call.op = "search"
    /\ call.indexed.generated
    /\ call.query.vector.kind = "none"
    /\ call.query.text = call.indexed.text
    /\ call.query.k >= 1
    /\ call.query.category_filter.kind = "none"

\* C6: index_content(id, fields) without an embedding, then a search by the
\* same text with k >= 1 and no filter, returns the record with that id as
\* the first result with score 1.0 (up to the rounding of the division),
\* whatever else is stored or cached.
\* Stated for the searches in which nothing but the embedder is in play: the
\* id is the only member of the identifier set (no other record is ranked)
\* and every Redis command of the search was answered.
C6_IndexedIsFirst ==
    (/\ SearchesIndexedText
     /\ content_ids = {call.indexed.id}
     /\ call.faults = NoFaults) =>
        /\ Len(results) >= 1
        /\ results[1].id = call.indexed.id
        /\ AboutOne(results[1].score)

(***************************************************************************)
(* Properties of the embedder, checked under SpecService.                  *)
(***************************************************************************)
\* the latest two calls are both generate_embedding (the configuration did
\* not change between them)
TwoEmbeddings ==
    call.op = "generate_embedding" /\ call.previous.op = "generate_embedding"

\* C12: under a fixed configuration, two calls generate_embedding(t) for the
\* same text t return identical vectors, also when model.encode raises in
\* one of the calls and not in the other.
C12_SameTextSameVector ==
    (TwoEmbeddings /\ call.text = call.previous.text) =>
        call.embedding = call.previous.embedding

\* C13: after a call of generate_embedding returns, the cache holds an entry
\* for the text that equals the returned vector; on a hit the cache is the
\* one the call found.
C13_CachedAfterCall ==
    call.op = "generate_embedding" =>
        /\ call.key \in DOMAIN embedding_cache
        /\ embedding_cache[call.key] = call.embedding

\* C14: the entry a call of generate_embedding stored (computed for its text)
\* is returned by the next call only if that call has exactly the same text.
C14_EntryOfExactText ==
    (TwoEmbeddings /\ ~call.previous.hit /\ ~call.previous.raised
        /\ call.hit /\ call.key = PyHash(call.previous.text)) =>
        call.text = call.previous.text

\* C26: index_content is all-or-nothing: when a call returns False, the
\* store (the records and the identifier set) is exactly as before the call.
C26_FalseLeavesStore ==
    (call.op = "index_content" /\ ~returned) =>
        /\ content[call.id] = call.replaced
        /\ call.id \in content_ids <=> call.member

\* the latest call of coroutine t was a generate_embedding, and it has returned
Embedded(t) ==
    pending[t].state = "returned" /\ pending[t].op = "generate_embedding"

\* C27: when two generate_embedding calls for the same uncached text run
\* concurrently (one started while the other awaited the executor, and both
\* missed the cache), both return the same vector, and the entry left in the
\* cache for the text is what a computation of it gives. Checked under
\* SpecRace.
C27_ConcurrentCallsAgree ==
    \A t \in Tasks, u \in Tasks :
        ( /\ Embedded(t) /\ Embedded(u)
          /\ pending[t].text = pending[u].text
          /\ ~pending[t].hit /\ ~pending[u].hit
          /\ t \in pending[u].during )
        => /\ pending[t].value = pending[u].value
           /\ PyHash(pending[t].text) \in DOMAIN embedding_cache =>
                  embedding_cache[PyHash(pending[t].text)] =
                      model_encode(pending[t].text, dimension)

\* C29: tags round-trip through the store: the tags of the search result of
\* a record just indexed are the tag list given to index_content, tags
\* containing a comma and empty-string tags included. Checked under SpecTags.
C29_TagsRoundTrip ==
    (call.op = "search" /\ call.indexed.id # "") =>
        \A i \in 1..Len(results) :
            results[i].id = call.indexed.id =>
                results[i].tags = call.indexed.tags

(***************************************************************************)
(* Properties of the count and of the endpoint, checked under SpecApi.     *)
(***************************************************************************)
\* C28: get_content_count returns the number of distinct ids for which
\* index_content has returned True.
C28_CountsAcknowledged ==
    call.op = "get_content_count" => call.count = Cardinality(acknowledged)

\* C28 amended: get_content_count returns the number of distinct ids for
\* which index_content has returned True, or 0 when the scard call fails.
C28_CountsAcknowledgedOrZero ==
    call.op = "get_content_count" =>
        call.count = IF call.scard_fails THEN 0 ELSE Cardinality(acknowledged)

\* C28 witness: the count is 1 after c1 was indexed and an index_content of c2
\* returned False having written its record.
C28_Witness ==
    /\ call.op = "get_content_count"
    /\ ~call.scard_fails
    /\ call.count = 1
    /\ acknowledged = {"c1"}
    /\ content["c2"].exists

\* C30: when the vector search service is not initialised search_content
\* answers 503; it answers 500 only when the search itself fails.
C30_UnavailableIs503 ==
    call.op = "search_content" =>
        /\ call.vs = "None" => call.status = 503
        /\ call.status = 500 => call.vs # "None"

\* C21: generate_embedding never raises, and when the model backend is
\* absent or fails during the call the vector returned has the configured
\* dimension and is the one the deterministic fallback produces.
C21_FallbackOfDimension ==
    (call.op = "generate_embedding" /\ (model = "None" \/ call.raised))
        => /\ Len(call.embedding) = dimension
           /\ \E seed \in seeded(hash_seed, {call.text}) :
                  call.embedding =
                      generate_mock_embedding(seed, call.text, dimension)

\* C22: when initialize changes the model or the dimension, the whole cache
\* is invalidated, so that no vector of the previous configuration is served.
C22_ReinitializeInvalidates ==
    [][(call'.op = "initialize" /\ <<model', dimension'>> # <<model, dimension>>)
           => embedding_cache' = <<>>]_vars

\* C23: generate_batch_embeddings(texts) returns one vector per text, in
\* order, and the i-th is what generate_embedding(texts[i]) returns in the
\* same state (the batch call leaves the service as it found it).
C23_BatchIsElementwise ==
    call.op = "generate_batch_embeddings"
        => /\ Len(call.embeddings) = Len(call.texts)
           /\ \E seed \in seeded(hash_seed,
                                  {call.texts[i] : i \in 1..Len(call.texts)}) :
                  \A i \in 1..Len(call.texts) :
                      call.embeddings[i] =
                          generate_embedding(seed, call.texts[i],
                                             call.encode_fails).embedding

(***************************************************************************)
(* Properties of the emotion detector, checked under SpecEmotion.          *)
(***************************************************************************)
\* C24: for every string emotion_detector returns a dictionary with the key
\* 'dominant_emotion', and for the empty string its value is not None.
C24_DominantEmotionPresent ==
    call.op = "emotion_detector"
        => /\ "dominant_emotion" \in DOMAIN call.result
           /\ call.text_to_analyse = EmptyStr
                  => call.result.dominant_emotion # None

(***************************************************************************)
(* Properties of reads under failures, checked under SpecFaults.           *)
(***************************************************************************)
\* C11: when no record has been indexed (no index_content call has returned
\* True), every search call returns the empty list.
C11_NothingIndexedNothingFound ==
    (call.op = "search" /\ content_ids = {}) => results = <<>>

\* C11 witness: a search that found nothing while the store did hold a
\* record with an embedding, written by a call whose sadd raised.
C11_Witness ==
    /\ call.op = "search"
    /\ content_ids = {}
    /\ results = <<>>
    /\ call.query.k > 0
    /\ ~call.faults.smembers
    /\ \E id \in Ids : content[id].exists /\ HasEmbedding(id)

\* the candidate under id can be read, decoded and scored against the query
\* vector of the latest search, and passes its filter
Scorable(id) ==
    /\ id \notin call.faults.hgetall
    /\ content[id].exists
    /\ HasEmbedding(id)
    /\ Len(StoredVector(id)) = Len(call.query_vector)
    /\ ~filter_drops(call.query.category_filter, content[id].category)

\* C16: a candidate that cannot be read, decoded or scored is left out of
\* the result, and every other candidate that passes the filter is returned
\* (k being large enough for all of them).
C16_ExcludeAndContinue ==
    (/\ call.op = "search"
     /\ ~call.faults.smembers
     /\ call.query.k >= Cardinality(content_ids)) =>
        {results[i].id : i \in 1..Len(results)} =
            {id \in content_ids : Scorable(id)}

\* C20: a search whose query carries a vector ranks the candidates against
\* exactly that vector and leaves the embedding cache as it is; a search
\* whose query carries none uses generate_embedding(query.text).
C20_SuppliedVectorVerbatim ==
    call.op = "search" =>
        IF call.query.vector.kind = "list"
        THEN /\ call.query_vector = call.query.vector.v
             /\ embedding_cache = call.cache_before
             /\ (~call.faults.smembers =>
                    \E sorted \in sorted_by_score(
                                      scan(call.order, call.query.vector.v,
                                           call.query.category_filter,
                                           call.faults.hgetall)) :
                        results = PySlice(sorted, call.query.k))
        ELSE IF call.raised
        THEN \E seed \in seeded(hash_seed, {call.query.text}) :
                 call.query_vector =
                     generate_mock_embedding(seed, call.query.text, dimension)
        ELSE call.query_vector = embedding_cache[PyHash(call.query.text)]

\* C20 witness: a search by a supplied vector returned a result and the
\* text of its query was never embedded.
C20_Witness ==
    /\ call.op = "search"
    /\ call.query.vector.kind = "list"
    /\ results # <<>>
    /\ PyHash(call.query.text) \notin DOMAIN embedding_cache

(***************************************************************************)
(* Properties of writes under failures, checked under SpecWrites.          *)
(***************************************************************************)
\* C17: index_content returns a boolean, and it returns False whenever hset
\* or sadd raises (or an earlier step of the try block does).
C17_FalseOnFailure ==
    call.op = "index_content" =>
        /\ returned \in BOOLEAN
        /\ call.outcome # "ok" => returned = FALSE

\* C17 witness: model.encode raised, the record was written, sadd raised,
\* and the call returned False.
C17_Witness ==
    /\ call.op = "index_content"
    /\ call.raised
    /\ call.outcome = "sadd"
    /\ content[call.id].exists
    /\ returned = FALSE

\* what failed in an index_content call on a well-formed mapping: the
\* embedding (model.encode raised), else the storage (hset or sadd raised)
Cause(c) ==
    IF c.outcome = "input" THEN "InvalidInput"
    ELSE IF c.raised THEN "EmbeddingFailed"
    ELSE IF c.outcome \in {"hset", "sadd"} THEN "StorageFailed"
    ELSE "none"

\* the latest call of coroutine t was an index_content, and it has returned
Indexed(t) ==
    pending[t].state = "returned" /\ pending[t].op = "index_content"

\* C18: two index_content calls of which one failed in the embedding and the
\* other in the storage return different values. Checked under SpecCauses.
C18_CauseDistinguishable ==
    \A t \in Tasks, u \in Tasks :
        ( /\ Indexed(t) /\ Indexed(u)
          /\ Cause(pending[t]) = "EmbeddingFailed"
          /\ Cause(pending[u]) = "StorageFailed" )
        => pending[t].value # pending[u].value

\* what generate_embedding can give for the title and the content of the
\* call that returned: the vector the call generated, or, when the call
\* generated none, what a call of generate_embedding would return
EmbeddingsOfText ==
    IF call.fields.embedding.kind = "absent" THEN {call.generated}
    ELSE LET text == text_to_embed(call.fields.title, call.fields.content)
         IN {generate_embedding(seed, text, FALSE).embedding :
                seed \in seeded(hash_seed, {text})}

\* C19: when the caller supplies no embedding, the embedding stored by a call
\* that returns True is what generate_embedding gives for the title and the
\* content of that call.
C19_StoredIsEmbeddingOfText ==
    (call.op = "index_content" /\ returned /\ ~call.supplied) =>
        \E embedding \in EmbeddingsOfText :
            JsonLoads(content[call.id].embedding) = List(embedding)

====
